---- MODULE Spec2Model ----
(***************************************************************************)
(* Order status state machine of the delivery-staff client:                *)
(*   - the Status Registry (ORDER_STATUSES) and the Order Mapper           *)
(*     (mapApiOrderToOrder),                                               *)
(*   - the order queries getOrders / GetOrderByUser and filterOrders,      *)
(*   - the details view (OrderDetailsScreen): status card, status modal,   *)
(*     getNextStatusId, handleUpdateOrderStatus and the Accept button,     *)
(*   - the update notification bus (orderUpdated) and its two subscribers, *)
(*   - the dashboard view (DashboardScreen): loadDashboardData, the        *)
(*     online toggle,                                                      *)
(*   - the orders list view (OrdersListScreen): loadOrders and the         *)
(*     closures its callers run it in,                                     *)
(*   - the rejection ledger (RejectedOrdersStorage) over AsyncStorage,     *)
(*   - the lookup of the details view opened with an order id              *)
(*     (fetchOrderDetails),                                                *)
(*   - the payment method normalisation of the Order Mapper.               *)
(***************************************************************************)
EXTENDS Integers, Sequences, FiniteSets, Bags, TLC

VARIABLES
    \* ---- order queries (getapi.ts) ----
    fetchPc,          \* "idle" | "fetched" | "failed" | "filtered"
    httpStatus,       \* "none" | "ok" | "error": how client.get settled
    fetchFn,          \* which query produced ordermaster
    apiOrders,        \* response.data of the last query (raw ApiOrder records)
    ordermaster,      \* the Order[] the query returned
    currentOrders,    \* filterOrders(...).currentOrders
    pastOrders,       \* filterOrders(...).pastOrders
    \* ---- details view (OrderDetailsScreen.tsx) ----
    order,            \* useState<Order>: the displayed order
    loading,          \* useState(false)
    showStatusModal,  \* useState(false)
    mounted,          \* the details screen is on the navigation stack
    hasCallback,      \* 'onOrderStatusUpdate' in route.params
    queried,          \* argument of the last getNextStatusId call of handleUpdateOrderStatus
    nextStatusId,     \* its result (const nextStatusId)
    requested,        \* the status the courier meant to request with that call
    pending,          \* updatestatusId calls awaiting the backend
    sent,             \* Status bodies handed to updatestatusId, in order
    lastReply,        \* outcome of the backend call that completed last
    done,             \* number of completed backend calls
    emitted,          \* number of orderUpdateEmitter.emit('orderUpdated')
    alert,            \* title of the last Alert.alert
    \* ---- update notification bus (orderUpdateEmitter) ----
    subscribers,      \* handlers registered for 'orderUpdated'
    \* ---- dashboard view (DashboardScreen) ----
    isOnline,         \* state.app.isOnline
    dashMounted,      \* the dashboard screen is mounted
    dashGen,          \* names the closures of the current mount (alternates)
    dashMountOnline,  \* isOnline as captured by the closures of the mount render
    dashActiveOrders, \* useState<Order[]>([])
    dashRefreshing,   \* useState(false)
    dashLoads,        \* loadDashboardData calls with a request outstanding
    fetchTick,        \* flips whenever an order fetch of the dashboard resolves
    lastFetched,      \* the orders that fetch returned
    dashAlert,        \* title of the dashboard's last Alert.alert
    \* ---- orders list view (OrdersListScreen) ----
    ledger,           \* Rejection Ledger: ids of the live entries in storage
    listMounted,      \* the orders list screen is mounted
    listGen,          \* names the closures of the current mount (alternates)
    listActive,       \* useState<Order[]>([])  (activeOrders)
    listHistory,      \* useState<Order[]>([])  (orderHistory)
    isLoading,        \* useState(false)
    listRefreshing,   \* useState(false)        (refreshing)
    networkError,     \* useState(false)
    rejectedOrderIds, \* useState<string[]>([])
    activeTab,        \* useState('active')
    storagePending,   \* checkStorageValues has not yet set the rejected ids
    timerEnv,         \* what the interval callback's loadOrders closed over
    timers,           \* the intervals set and not cleared, each by its callback's closure
    listCalls,        \* loadOrders calls awaiting getOrders
    lastResponse,     \* what getOrders gave the loadOrders call that completed last
    \* ---- rejection ledger (RejectedOrdersStorage) ----
    stored,           \* the AsyncStorage item 'rejected_orders', parsed
    clock,            \* the clock (new Date()), in ticks since midnight UTC of day 0
    lastCall,         \* the ledger call that completed last, and its outcome
    adding,           \* addRejectedOrder calls between their getItem and their setItem
    completed,        \* the addRejectedOrder calls that went through both awaits
    \* ---- details view opened with an order id (fetchOrderDetails) ----
    fetchingOrder,    \* useState(!orderParam)
    routeOrderId,     \* route.params.orderId, "" when the order itself was passed
    lookupPc,         \* "idle" | "available" | "assigned" | "done": the await reached
    availableSource,  \* how GetOrderByUser answers during the lookup
    assignedSource,   \* how getOrders answers during the lookup
    \* ---- order mapper: payment method (helper.ts) ----
    apiPayment,       \* a.paymentTypeName of the record being mapped
    mappedPayment     \* the paymentMethod of the mapped order, "unmapped" before

fetchVars   == <<fetchPc, httpStatus, fetchFn, apiOrders, ordermaster, currentOrders, pastOrders>>
detailsVars == <<order, loading, showStatusModal, mounted, hasCallback, queried,
                 nextStatusId, requested, pending, sent, lastReply, done, emitted, alert>>
busVars     == <<subscribers>>
dashVars    == <<isOnline, dashMounted, dashGen, dashMountOnline, dashActiveOrders,
                 dashRefreshing, dashLoads, fetchTick, lastFetched, dashAlert>>
listVars    == <<ledger, listMounted, listGen, listActive, listHistory, isLoading,
                 listRefreshing, networkError, rejectedOrderIds, activeTab,
                 storagePending, timerEnv, timers, listCalls, lastResponse>>
viewVars    == <<busVars, dashVars, listVars>>
storageVars == <<stored, clock, lastCall, adding, completed>>
lookupVars  == <<fetchingOrder, routeOrderId, lookupPc, availableSource, assignedSource>>
mapperVars  == <<apiPayment, mappedPayment>>
vars        == <<fetchPc, httpStatus, fetchFn, apiOrders, ordermaster, currentOrders, pastOrders,
                 order, loading, showStatusModal, mounted, hasCallback, queried,
                 nextStatusId, requested, pending, sent, lastReply, done, emitted, alert,
                 subscribers,
                 isOnline, dashMounted, dashGen, dashMountOnline, dashActiveOrders,
                 dashRefreshing, dashLoads, fetchTick, lastFetched, dashAlert, ledger, listMounted, listGen, listActive, listHistory, isLoading,
                 listRefreshing, networkError, rejectedOrderIds, activeTab,
                 storagePending, timerEnv, timers, listCalls, lastResponse,
                 stored, clock, lastCall, adding, completed,
                 fetchingOrder, routeOrderId, lookupPc, availableSource, assignedSource,
                 apiPayment, mappedPayment>>

----------------------------------------------------------------------------
\* Bounds of the model

MaxCode    == 264     \* status codes 0..MaxCode, plus the unregistered 999
MaxId      == 2       \* backend order ids 1..MaxId
MaxBatch   == 3       \* orders per query response
MaxCalls   == 7       \* backend update calls started per behaviour
MaxPending == 2       \* update calls in flight at once
MaxDashLoads == 2     \* loadDashboardData calls outstanding at once
MaxDashBatch == 1     \* orders per response to the dashboard's query
MaxListCalls == 2     \* loadOrders calls outstanding at once
MaxListBatch == 1     \* orders per response to the list's query
MaxLedgerId  == 2     \* order ids 1..MaxLedgerId offered for rejection
MaxDay       == 4     \* the clock runs over the days 0..MaxDay
MaxLookupBatch == 2   \* orders per response to a query of the details lookup
MaxCapitals  == 4     \* leading characters of a payment type name that may be capitals
MaxAdds      == 2     \* addRejectedOrder calls followed through their two awaits

Codes      == (0..MaxCode) \cup {999}
BatchCodes == {8, 58, 263, 999}
DashCodes  == {52, 53}
ListCodes  == {52, 58}

----------------------------------------------------------------------------
\* JavaScript values

Null      == 0 - 1          \* null (getNextStatusId's "no successor")
Undefined == "undefined"    \* undefined (statusInfo?.name of a missing entry)

Digits == <<"0", "1", "2", "3", "4", "5", "6", "7", "8", "9">>

\* Number.prototype.toString() of a non-negative integer
RECURSIVE toString(_)
toString(n) ==
    IF n < 10 THEN Digits[n + 1]
    ELSE toString(n \div 10) \o Digits[(n % 10) + 1]

\* parseInt(s, 10) of a decimal string produced by toString
parseInt(s) == CHOOSE n \in 0..MaxId : toString(n) = s

----------------------------------------------------------------------------
\* Status Registry

ORDER_STATUSES_Without263 ==
    [k \in {"4", "5", "8", "52", "53", "54", "55", "56", "57", "58", "59", "65"} |->
        [id |-> k, name |-> "registered"]]

ORDER_STATUSES ==
    [k \in {"4", "5", "8", "52", "53", "54", "55", "56", "57", "58", "59", "65", "263"} |->
        CASE k = "4"   -> [id |-> "4",   name |-> "pending"]
          [] k = "5"   -> [id |-> "5",   name |-> "accepted"]
          [] k = "8"   -> [id |-> "8",   name |-> "cancelled"]
          [] k = "52"  -> [id |-> "52",  name |-> "assigned"]
          [] k = "53"  -> [id |-> "53",  name |-> "started"]
          [] k = "54"  -> [id |-> "54",  name |-> "picked"]
          [] k = "55"  -> [id |-> "55",  name |-> "missing_items"]
          [] k = "56"  -> [id |-> "56",  name |-> "out_for_delivery"]
          [] k = "57"  -> [id |-> "57",  name |-> "reached"]
          [] k = "58"  -> [id |-> "58",  name |-> "delivered"]
          [] k = "59"  -> [id |-> "59",  name |-> "not_picked"]
          [] k = "65"  -> [id |-> "65",  name |-> "at_the_restaurant"]
          [] k = "263" -> [id |-> "263", name |-> "customer_not_showed_up"]]

\* ORDER_STATUSES[key]?.name
StatusNameOf(key) ==
    IF key \in DOMAIN ORDER_STATUSES THEN ORDER_STATUSES[key].name ELSE Undefined

----------------------------------------------------------------------------
\* Order Mapper

\* variant: the registry is looked up with the record's id instead of its status code
mapApiOrderToOrder_LookupById(a) ==
    [id       |-> toString(a.id),
     status   |-> StatusNameOf(toString(a.id)),
     statusId |-> a.statusId]

mapApiOrderToOrder(a) ==
    [id       |-> toString(a.id),
     status   |-> StatusNameOf(toString(a.statusId)),
     statusId |-> a.statusId]

\* Array.prototype.map(mapApiOrderToOrder)
MapOrders(raw) == [i \in 1..Len(raw) |-> mapApiOrderToOrder(raw[i])]

----------------------------------------------------------------------------
\* filterOrders

IsCurrent(o) == o.statusId # 58

\* variant: every terminal code counts as past
IsPast_AnyTerminal(o) == o.statusId \in {8, 58, 59, 263}

IsPast(o)    == o.statusId = 58

filterOrders(orders) ==
    [currentOrders |-> SelectSeq(orders, IsCurrent),
     pastOrders    |-> SelectSeq(orders, IsPast)]

----------------------------------------------------------------------------
\* Order queries: raw responses the backend can give

RawOrder(i, c) == [id |-> i, statusId |-> c]

\* the status codes of a response: up to MaxBatch records over BatchCodes,
\* or a single record of any code; record i carries id i
Batches ==
    UNION {[1..n -> BatchCodes] : n \in 0..MaxBatch} \cup {<<c>> : c \in Codes}

RawBatch(codes) == [i \in 1..Len(codes) |-> RawOrder(i, codes[i])]

\* variant: the mapper throws on an unregistered code, and the query's
\* catch rethrows for the whole response
QueryReturns_MapperThrows(fn, raw) ==
    /\ fetchFn'       = fn
    /\ httpStatus'    = "ok"
    /\ apiOrders'     = raw
    /\ IF \E i \in 1..Len(raw) : toString(raw[i].statusId) \notin DOMAIN ORDER_STATUSES
       THEN ordermaster' = <<>> /\ fetchPc' = "failed"
       ELSE ordermaster' = MapOrders(raw) /\ fetchPc' = "fetched"
    /\ currentOrders' = <<>>
    /\ pastOrders'    = <<>>
    /\ UNCHANGED <<detailsVars, viewVars, storageVars, lookupVars, mapperVars>>

\* try { response = await client.get(url); return response.data.map(mapApiOrderToOrder) }
QueryReturns(fn, raw) ==
    /\ fetchFn'       = fn
    /\ httpStatus'    = "ok"
    /\ apiOrders'     = raw
    /\ ordermaster'   = MapOrders(raw)
    /\ fetchPc'       = "fetched"
    /\ currentOrders' = <<>>
    /\ pastOrders'    = <<>>
    /\ UNCHANGED <<detailsVars, viewVars, storageVars, lookupVars, mapperVars>>

\* catch (error) { throw error }
QueryThrows(fn) ==
    /\ fetchFn'       = fn
    /\ httpStatus'    = "error"
    /\ apiOrders'     = <<>>
    /\ ordermaster'   = <<>>
    /\ fetchPc'       = "failed"
    /\ currentOrders' = <<>>
    /\ pastOrders'    = <<>>
    /\ UNCHANGED <<detailsVars, viewVars, storageVars, lookupVars, mapperVars>>

getOrders ==
    \E codes \in Batches : QueryReturns("getOrders", RawBatch(codes))

getOrdersFails == QueryThrows("getOrders")

GetOrderByUser ==
    \E codes \in Batches : QueryReturns("GetOrderByUser", RawBatch(codes))

GetOrderByUserFails == QueryThrows("GetOrderByUser")

\* const { currentOrders, pastOrders } = filterOrders(allOrders)
FilterOrders ==
    /\ fetchPc = "fetched"
    /\ fetchFn = "getOrders"
    /\ currentOrders' = filterOrders(ordermaster).currentOrders
    /\ pastOrders'    = filterOrders(ordermaster).pastOrders
    /\ fetchPc'       = "filtered"
    /\ UNCHANGED <<httpStatus, fetchFn, apiOrders, ordermaster>>
    /\ UNCHANGED <<detailsVars, viewVars, storageVars, lookupVars, mapperVars>>

----------------------------------------------------------------------------
\* Status Transition Engine (OrderDetailsScreen)

\* variant: accepting (5 -> 52) is an entry of the progression table
statusProgression_BackToRestaurant ==
    [c \in {52, 53, 65, 54, 56, 57} |->
        CASE c = 52 -> 53
          [] c = 53 -> 65
          [] c = 65 -> 54
          [] c = 54 -> 56
          [] c = 56 -> 65
          [] c = 57 -> 58]

statusProgression_WithAccept ==
    [c \in {5, 52, 53, 65, 54, 56, 57} |->
        CASE c = 5  -> 52
          [] c = 52 -> 53
          [] c = 53 -> 65
          [] c = 65 -> 54
          [] c = 54 -> 56
          [] c = 56 -> 57
          [] c = 57 -> 58]

statusProgression ==
    [c \in {52, 53, 65, 54, 56, 57} |->
        CASE c = 52 -> 53
          [] c = 53 -> 65
          [] c = 65 -> 54
          [] c = 54 -> 56
          [] c = 56 -> 57
          [] c = 57 -> 58]

\* JavaScript truthiness of a number | null
Falsy(x) == x = Null \/ x = 0

\* variant: the table sends started (53) straight to picked (54)
getNextStatusId_SkipRestaurant(currentStatusId) ==
    IF currentStatusId = 57 THEN 58
    ELSE IF currentStatusId = 53 THEN 54
    ELSE IF currentStatusId \in DOMAIN statusProgression
         THEN statusProgression[currentStatusId]
         ELSE Null

\* variant: the special case covers every code from 57 upwards
getNextStatusId_From57Up(currentStatusId) ==
    IF currentStatusId >= 57 THEN 58
    ELSE IF currentStatusId \in DOMAIN statusProgression
         THEN statusProgression[currentStatusId]
         ELSE Null

\* statusProgression[currentStatusId] || null, after the special case for 57
getNextStatusId(currentStatusId) ==
    IF currentStatusId = 57 THEN 58
    ELSE IF currentStatusId \in DOMAIN statusProgression
            /\ ~Falsy(statusProgression[currentStatusId])
         THEN statusProgression[currentStatusId]
         ELSE Null

\* getNextStatusName(id) is non-null: a successor exists and the registry
\* names it (formatOrderStatus only reformats that name)
HasNextStatusName(currentStatusId) ==
    /\ ~Falsy(getNextStatusId(currentStatusId))
    /\ toString(getNextStatusId(currentStatusId)) \in DOMAIN ORDER_STATUSES

\* <TouchableOpacity disabled={!order || order.statusId < 52}>
StatusCardDisabled == order.statusId < 52

\* the status codes the modal's buttons let the courier request:
\* one "Mark as <next>" button, rendered when getNextStatusName is non-null
OfferedStatusUpdates ==
    IF showStatusModal /\ HasNextStatusName(order.statusId)
    THEN {getNextStatusId(order.statusId)}
    ELSE {}

\* what the courier can mean when asking for a status update: the successor,
\* and at 57 ("show both 58 and 263 options") either delivered or no-show
Requestable(currentStatusId) ==
    IF currentStatusId = 57 THEN {58, 263} ELSE {getNextStatusId(currentStatusId)}

\* getNextAction(): the single action button of the remaining statuses
NextActionLabels ==
    CASE order.status = "assigned" -> {"Accept Order"}
      [] order.status = "picked"   -> {"Start Delivery"}
      [] order.status = "en_route" -> {"Mark as Delivered"}
      [] OTHER                     -> {}

\* titles of the buttons rendered in the action container
ActionButtons ==
    IF order.statusId = 5 THEN {"Reject", "Accept"}
    ELSE IF order.status = "assigned" THEN {"Reject", "Accept Order"}
    ELSE IF order.status = "accepted" THEN {"Reject", "Accept"}
    ELSE NextActionLabels

\* order.statusId === 5 ? ... : order.status === 'assigned' ? ... :
\* order.status === 'accepted' ? (Reject, Accept) : ...
AcceptOffered ==
    \/ order.statusId = 5
    \/ (order.status # "assigned" /\ order.status = "accepted")

----------------------------------------------------------------------------
\* Update Notification Bus: the emitter's module is not among the sources;
\* on / off / emit are modelled as the specification describes them

\* orderUpdateEmitter.on('orderUpdated', handler)
On(subs, handler)  == subs \cup {handler}

\* orderUpdateEmitter.off('orderUpdated', handler)
Off(subs, handler) == subs \ {handler}

\* the handlers emit('orderUpdated') invokes: every one registered at the call
Invoked(view) == {h \in subscribers : h.view = view}

----------------------------------------------------------------------------
\* Outstanding asynchronous calls of a view: a bag, since calls settle in any order

One(call) == SetToBag({call})

Outstanding(calls) == BagCardinality(calls)

RemoveAt(seq, i) == [j \in 1..(Len(seq) - 1) |-> IF j < i THEN seq[j] ELSE seq[j + 1]]

----------------------------------------------------------------------------
\* Dashboard view

DashBatches == UNION {[1..n -> DashCodes] : n \in 0..MaxDashBatch}

\* a call of loadDashboardData made by a closure that saw isOnline = online:
\* GetOrderByUser and fetchWalletData outstanding together, or the wallet alone;
\* wrap: the caller sets refreshing to false after its await
DashLoad(online, wrap) ==
    [online   |-> online,
     wrap     |-> wrap,
     orders   |-> IF online THEN "pending" ELSE "none",
     wallet   |-> "pending",
     returned |-> FALSE]

\* the dashboard's 'orderUpdated' handler, created by the first render:
\* setRefreshing(true); await loadDashboardData(); setRefreshing(false)
DashReload ==
    /\ Outstanding(dashLoads) < MaxDashLoads
    /\ dashRefreshing' = TRUE
    /\ dashLoads'      = dashLoads (+) One(DashLoad(dashMountOnline, TRUE))
    /\ UNCHANGED <<isOnline, dashMounted, dashGen, dashMountOnline, dashActiveOrders,
                   fetchTick, lastFetched, dashAlert>>

DashDeliver ==
    IF Invoked("dashboard") # {} THEN DashReload ELSE UNCHANGED dashVars

\* what a loadOrders closure captured from its render: rejectedOrderIds, and
\* whether activeOrders and orderHistory were both empty
Closure(rejected, empty) == [rejected |-> rejected, empty |-> empty]

\* the render a mount starts with: every useState at its initial value
FirstRender == Closure({}, TRUE)

ThisRender  == Closure(rejectedOrderIds, Len(listActive) = 0 /\ Len(listHistory) = 0)

\* a loadOrders call: who made it, and the closure it runs in
ListCall(src, env) == [src |-> src, env |-> env]

\* the list's 'orderUpdated' handler, created by the first render:
\* setIsLoading(true); await loadOrders(false); setIsLoading(false)
ListReload ==
    /\ Outstanding(listCalls) < MaxListCalls
    /\ isLoading' = TRUE
    /\ listCalls' = listCalls (+) One(ListCall("bus", FirstRender))
    /\ UNCHANGED <<ledger, listMounted, listGen, listActive, listHistory, listRefreshing,
                   networkError, rejectedOrderIds, activeTab, storagePending, timerEnv, timers,
                   lastResponse>>

ListDeliver ==
    IF Invoked("list") # {} THEN ListReload ELSE UNCHANGED listVars

\* emit('orderUpdated') reaches the registered handlers
Deliver ==
    /\ DashDeliver
    /\ ListDeliver

\* orderUpdateEmitter.emit('orderUpdated') of the details view
Emit ==
    /\ emitted' = emitted + 1
    /\ Deliver

\* a details screen other than the modelled one publishes orderUpdated
Publish ==
    /\ Deliver
    /\ UNCHANGED <<fetchVars, storageVars, lookupVars, mapperVars, detailsVars, busVars>>

\* variant: the dashboard does not register its handler
DashMount_NoSubscribe ==
    /\ ~dashMounted
    /\ dashMounted'      = TRUE
    /\ dashGen'          = 1 - dashGen
    /\ subscribers'      = subscribers
    /\ dashMountOnline'  = isOnline
    /\ dashActiveOrders' = <<>>
    /\ dashRefreshing'   = FALSE
    /\ dashLoads'        = IF isOnline
                           THEN One(DashLoad(TRUE, FALSE)) (+) One(DashLoad(TRUE, FALSE))
                           ELSE One(DashLoad(FALSE, FALSE))
    /\ UNCHANGED <<isOnline, fetchTick, lastFetched, dashAlert>>
    /\ UNCHANGED <<fetchVars, storageVars, lookupVars, mapperVars, detailsVars, listVars>>

\* first render and its effects: loadDashboardData(), on('orderUpdated', reload),
\* and the [isOnline] effect (load when online, else setActiveOrders([]))
DashMount ==
    /\ ~dashMounted
    /\ dashMounted'      = TRUE
    /\ dashGen'          = 1 - dashGen
    /\ subscribers'      = On(subscribers, [view |-> "dashboard", gen |-> 1 - dashGen])
    /\ dashMountOnline'  = isOnline
    /\ dashActiveOrders' = <<>>
    /\ dashRefreshing'   = FALSE
    /\ dashLoads'        = IF isOnline
                           THEN One(DashLoad(TRUE, FALSE)) (+) One(DashLoad(TRUE, FALSE))
                           ELSE One(DashLoad(FALSE, FALSE))
    /\ UNCHANGED <<isOnline, fetchTick, lastFetched, dashAlert>>
    /\ UNCHANGED <<fetchVars, storageVars, lookupVars, mapperVars, detailsVars, listVars>>

\* variant: the cleanup passes a new function to off, which removes nothing
DashUnmount_KeepsHandler ==
    /\ dashMounted
    /\ dashMounted'      = FALSE
    /\ subscribers'      = subscribers
    /\ dashLoads'        = EmptyBag
    /\ dashActiveOrders' = <<>>
    /\ dashRefreshing'   = FALSE
    /\ UNCHANGED <<isOnline, dashGen, dashMountOnline, fetchTick, lastFetched, dashAlert>>
    /\ UNCHANGED <<fetchVars, storageVars, lookupVars, mapperVars, detailsVars, listVars>>

\* unmount: the effect's cleanup off('orderUpdated', reload); the instance's
\* state is discarded, and with it whatever its outstanding calls would set
DashUnmount ==
    /\ dashMounted
    /\ dashMounted'      = FALSE
    /\ subscribers'      = Off(subscribers, [view |-> "dashboard", gen |-> dashGen])
    /\ dashLoads'        = EmptyBag
    /\ dashActiveOrders' = <<>>
    /\ dashRefreshing'   = FALSE
    /\ UNCHANGED <<isOnline, dashGen, dashMountOnline, fetchTick, lastFetched, dashAlert>>
    /\ UNCHANGED <<fetchVars, storageVars, lookupVars, mapperVars, detailsVars, listVars>>

\* handleRefresh: setRefreshing(true); await loadDashboardData(); setRefreshing(false)
DashHandleRefresh ==
    /\ dashMounted
    /\ Outstanding(dashLoads) < MaxDashLoads
    /\ dashRefreshing' = TRUE
    /\ dashLoads'      = dashLoads (+) One(DashLoad(isOnline, TRUE))
    /\ UNCHANGED <<isOnline, dashMounted, dashGen, dashMountOnline, dashActiveOrders,
                   fetchTick, lastFetched, dashAlert>>
    /\ UNCHANGED <<fetchVars, storageVars, lookupVars, mapperVars, detailsVars, busVars, listVars>>

\* variant: a rejection leaves loadDashboardData without returning to its caller
DashSettle_ThrowsOnRejection(was, load) ==
    LET returnsNow == /\ ~was.returned
                      /\ \/ "failed" \in {load.orders, load.wallet}
                         \/ (load.orders \in {"ok", "none"} /\ load.wallet = "ok")
        now        == [load EXCEPT !.returned = was.returned \/ returnsNow]
    IN  /\ dashLoads' = IF now.orders # "pending" /\ now.wallet # "pending"
                        THEN dashLoads (-) One(was)
                        ELSE (dashLoads (-) One(was)) (+) One(now)
        /\ dashRefreshing' = IF returnsNow /\ was.wrap
                                 /\ "failed" \notin {load.orders, load.wallet}
                              THEN FALSE ELSE dashRefreshing
        /\ UNCHANGED <<isOnline, dashMounted, dashGen, dashMountOnline, dashAlert>>
        /\ UNCHANGED <<fetchVars, storageVars, lookupVars, mapperVars, detailsVars, busVars, listVars>>

\* a request of the call `was` settles, leaving it as `load`: Promise.all returns
\* to loadDashboardData when both are fulfilled or at the first rejection, and
\* the wrapper then runs setRefreshing(false)
DashSettle(was, load) ==
    LET returnsNow == /\ ~was.returned
                      /\ \/ "failed" \in {load.orders, load.wallet}
                         \/ (load.orders \in {"ok", "none"} /\ load.wallet = "ok")
        now        == [load EXCEPT !.returned = was.returned \/ returnsNow]
    IN  /\ dashLoads' = IF now.orders # "pending" /\ now.wallet # "pending"
                        THEN dashLoads (-) One(was)
                        ELSE (dashLoads (-) One(was)) (+) One(now)
        /\ dashRefreshing' = IF returnsNow /\ was.wrap THEN FALSE ELSE dashRefreshing
        /\ UNCHANGED <<isOnline, dashMounted, dashGen, dashMountOnline, dashAlert>>
        /\ UNCHANGED <<fetchVars, storageVars, lookupVars, mapperVars, detailsVars, busVars, listVars>>

\* variant: setActiveOrders waits for Promise.all, i.e. for the wallet as well
DashOrdersResolve_AfterJoin ==
    \E was \in BagToSet(dashLoads), codes \in DashBatches :
        /\ was.orders = "pending"
        /\ dashActiveOrders' = IF was.wallet = "ok"
                               THEN MapOrders(RawBatch(codes))
                               ELSE dashActiveOrders
        /\ fetchTick'   = 1 - fetchTick
        /\ lastFetched' = MapOrders(RawBatch(codes))
        /\ DashSettle(was, [was EXCEPT !.orders = "ok"])

\* GetOrderByUser().then(orders => { setActiveOrders(orders); return orders })
DashOrdersResolve ==
    \E was \in BagToSet(dashLoads), codes \in DashBatches :
        /\ was.orders = "pending"
        /\ dashActiveOrders' = MapOrders(RawBatch(codes))
        /\ fetchTick'   = 1 - fetchTick
        /\ lastFetched' = MapOrders(RawBatch(codes))
        /\ DashSettle(was, [was EXCEPT !.orders = "ok"])

\* GetOrderByUser() rejects: Promise.all rejects, catch (error) logs it
DashOrdersReject ==
    \E was \in BagToSet(dashLoads) :
        /\ was.orders = "pending"
        /\ UNCHANGED <<dashActiveOrders, fetchTick, lastFetched>>
        /\ DashSettle(was, [was EXCEPT !.orders = "failed"])

\* dispatch(fetchWalletData()) is fulfilled
DashWalletResolve ==
    \E was \in BagToSet(dashLoads) :
        /\ was.wallet = "pending"
        /\ UNCHANGED <<dashActiveOrders, fetchTick, lastFetched>>
        /\ DashSettle(was, [was EXCEPT !.wallet = "ok"])

\* dispatch(fetchWalletData()) rejects
DashWalletReject ==
    \E was \in BagToSet(dashLoads) :
        /\ was.wallet = "pending"
        /\ UNCHANGED <<dashActiveOrders, fetchTick, lastFetched>>
        /\ DashSettle(was, [was EXCEPT !.wallet = "failed"])

\* variant: the check looks for available orders (5) instead of assigned ones
HasAcceptedOrders_Available(orders) == \E i \in 1..Len(orders) : orders[i].statusId = 5

\* activeOrders.filter(order => order.statusId === 52).length > 0
HasAcceptedOrders(orders) == \E i \in 1..Len(orders) : orders[i].statusId = 52

\* handleToggleOnlineStatus(value), with the [isOnline] effect that follows
\* a change of the flag
handleToggleOnlineStatus ==
    \E value \in BOOLEAN :
        /\ dashMounted
        /\ IF ~value /\ Len(dashActiveOrders) > 0 /\ HasAcceptedOrders(dashActiveOrders)
           THEN /\ dashAlert' = "Cannot Go Offline"
                /\ UNCHANGED <<isOnline, dashActiveOrders, dashLoads>>
           ELSE /\ isOnline'  = value
                /\ dashAlert' = dashAlert
                /\ IF value = isOnline
                   THEN UNCHANGED <<dashActiveOrders, dashLoads>>
                   ELSE IF value
                        THEN /\ Outstanding(dashLoads) < MaxDashLoads
                             /\ dashLoads' = dashLoads (+) One(DashLoad(TRUE, FALSE))
                             /\ UNCHANGED dashActiveOrders
                        ELSE /\ dashActiveOrders' = <<>>
                             /\ UNCHANGED dashLoads
        /\ UNCHANGED <<dashMounted, dashGen, dashMountOnline, dashRefreshing, fetchTick,
                       lastFetched>>
        /\ UNCHANGED <<fetchVars, storageVars, lookupVars, mapperVars, detailsVars, busVars, listVars>>

----------------------------------------------------------------------------
\* Orders list view

ListBatches == UNION {[1..n -> ListCodes] : n \in 0..MaxListBatch}

\* first render and its effects: on('orderUpdated', reload), and the [activeTab]
\* effect: checkStorageValues(), loadOrders(true), setInterval(...)
ListMount ==
    /\ ~listMounted
    /\ listMounted'      = TRUE
    /\ listGen'          = 1 - listGen
    /\ subscribers'      = On(subscribers, [view |-> "list", gen |-> 1 - listGen])
    /\ listActive'       = <<>>
    /\ listHistory'      = <<>>
    /\ listRefreshing'   = FALSE
    /\ networkError'     = FALSE
    /\ rejectedOrderIds' = {}
    /\ activeTab'        = "active"
    /\ storagePending'   = TRUE
    /\ isLoading'        = TRUE
    /\ listCalls'        = One(ListCall("effect", FirstRender))
    /\ timerEnv'         = FirstRender
    /\ timers'           = timers (+) One(FirstRender)
    /\ UNCHANGED <<ledger, lastResponse>>
    /\ UNCHANGED <<fetchVars, storageVars, lookupVars, mapperVars, detailsVars, dashVars>>

\* unmount: off('orderUpdated', reload) and clearInterval(intervalId); the
\* instance's state is discarded, and with it what its outstanding calls would set
ListUnmount ==
    /\ listMounted
    /\ listMounted'      = FALSE
    /\ subscribers'      = Off(subscribers, [view |-> "list", gen |-> listGen])
    /\ listCalls'        = EmptyBag
    /\ storagePending'   = FALSE
    /\ listActive'       = <<>>
    /\ listHistory'      = <<>>
    /\ isLoading'        = FALSE
    /\ listRefreshing'   = FALSE
    /\ networkError'     = FALSE
    /\ rejectedOrderIds' = {}
    /\ activeTab'        = "active"
    /\ timerEnv'         = FirstRender
    /\ timers'           = timers (-) One(timerEnv)
    /\ UNCHANGED <<ledger, listGen, lastResponse>>
    /\ UNCHANGED <<fetchVars, storageVars, lookupVars, mapperVars, detailsVars, dashVars>>

\* variant: the effect sets its interval without the previous one being cleared
SetActiveTab_KeepsInterval ==
    \E tab \in {"active", "history"} :
        /\ listMounted
        /\ tab # activeTab
        /\ Outstanding(listCalls) < MaxListCalls
        /\ activeTab'      = tab
        /\ storagePending' = TRUE
        /\ isLoading'      = IF ThisRender.empty THEN TRUE ELSE isLoading
        /\ listCalls'      = listCalls (+) One(ListCall("effect", ThisRender))
        /\ timerEnv'       = ThisRender
        /\ timers'         = timers (+) One(ThisRender)
        /\ UNCHANGED <<ledger, listMounted, listGen, listActive, listHistory,
                       listRefreshing, networkError, rejectedOrderIds, lastResponse>>
        /\ UNCHANGED <<fetchVars, storageVars, lookupVars, mapperVars, detailsVars, busVars, dashVars>>

\* setActiveTab(tab): the next render's [activeTab] effect clears the interval
\* and runs again with that render's closures: checkStorageValues(),
\* loadOrders(true) (spinner when the render's lists are empty), setInterval(...)
SetActiveTab ==
    \E tab \in {"active", "history"} :
        /\ listMounted
        /\ tab # activeTab
        /\ Outstanding(listCalls) < MaxListCalls
        /\ activeTab'      = tab
        /\ storagePending' = TRUE
        /\ isLoading'      = IF ThisRender.empty THEN TRUE ELSE isLoading
        /\ listCalls'      = listCalls (+) One(ListCall("effect", ThisRender))
        /\ timerEnv'       = ThisRender
        /\ timers'         = (timers (-) One(timerEnv)) (+) One(ThisRender)
        /\ UNCHANGED <<ledger, listMounted, listGen, listActive, listHistory,
                       listRefreshing, networkError, rejectedOrderIds, lastResponse>>
        /\ UNCHANGED <<fetchVars, storageVars, lookupVars, mapperVars, detailsVars, busVars, dashVars>>

\* checkStorageValues: cleanupOldRejectedOrders(), then
\* setRejectedOrderIds(await getRejectedOrderIds())
CheckStorageValues ==
    /\ listMounted
    /\ storagePending
    /\ storagePending'   = FALSE
    /\ rejectedOrderIds' = ledger
    /\ UNCHANGED <<ledger, listMounted, listGen, listActive, listHistory, isLoading,
                   listRefreshing, networkError, activeTab, timerEnv, timers, listCalls, lastResponse>>
    /\ UNCHANGED <<fetchVars, storageVars, lookupVars, mapperVars, detailsVars, busVars, dashVars>>

\* the interval fires: loadOrders(false) of the render that set it up
AutoRefresh ==
    \E env \in BagToSet(timers) :
        /\ listMounted
        /\ Outstanding(listCalls) < MaxListCalls
        /\ listCalls' = listCalls (+) One(ListCall("interval", env))
        /\ UNCHANGED <<ledger, listMounted, listGen, listActive, listHistory, isLoading,
                       listRefreshing, networkError, rejectedOrderIds, activeTab,
                       storagePending, timerEnv, timers, lastResponse>>
        /\ UNCHANGED <<fetchVars, storageVars, lookupVars, mapperVars, detailsVars, busVars, dashVars>>

\* handleRefresh: setRefreshing(true); setRejectedOrderIds(ids from storage);
\* await loadOrders(false) of the render the pull happened in
ListHandleRefresh ==
    /\ listMounted
    /\ Outstanding(listCalls) < MaxListCalls
    /\ listRefreshing'   = TRUE
    /\ rejectedOrderIds' = ledger
    /\ listCalls'        = listCalls (+) One(ListCall("refresh", ThisRender))
    /\ UNCHANGED <<ledger, listMounted, listGen, listActive, listHistory, isLoading,
                   networkError, activeTab, storagePending, timerEnv, timers, lastResponse>>
    /\ UNCHANGED <<fetchVars, storageVars, lookupVars, mapperVars, detailsVars, busVars, dashVars>>

\* how getOrders() settled: it returned these records, or it threw
Returned(raw) == [ok |-> TRUE, raw |-> raw]

Failed == [ok |-> FALSE, raw |-> <<>>]

\* orders.filter(order => !rejectedOrderIds.includes(order.id))
NotRejected(orders, rejected) ==
    SelectSeq(orders, LAMBDA o : o.id \notin rejected)

\* finally of loadOrders (showLoading is true for the effect's call only), then
\* what reload and handleRefresh do after their await
ListFinish(call, response) ==
    /\ listCalls'      = listCalls (-) One(call)
    /\ isLoading'      = IF call.src \in {"effect", "bus"} THEN FALSE ELSE isLoading
    /\ listRefreshing' = IF call.src = "refresh" THEN FALSE ELSE listRefreshing
    /\ lastResponse'   = response
    /\ UNCHANGED <<ledger, listMounted, listGen, rejectedOrderIds, activeTab,
                   storagePending, timerEnv, timers>>
    /\ UNCHANGED <<fetchVars, storageVars, lookupVars, mapperVars, detailsVars, busVars, dashVars>>

\* variant: the two lists are set from the closure's render on the history side
LoadOrdersResolve_KeepsHistory ==
    \E call \in BagToSet(listCalls), codes \in ListBatches :
        LET parts == filterOrders(MapOrders(RawBatch(codes)))
        IN  /\ listActive'   = NotRejected(parts.currentOrders, call.env.rejected)
            /\ listHistory'  = listHistory
            /\ networkError' = FALSE
            /\ ListFinish(call, Returned(RawBatch(codes)))

\* getOrders() resolves: filterOrders, the rejected filter, the three setters
LoadOrdersResolve ==
    \E call \in BagToSet(listCalls), codes \in ListBatches :
        LET parts == filterOrders(MapOrders(RawBatch(codes)))
        IN  /\ listActive'   = NotRejected(parts.currentOrders, call.env.rejected)
            /\ listHistory'  = NotRejected(parts.pastOrders, call.env.rejected)
            /\ networkError' = FALSE
            /\ ListFinish(call, Returned(RawBatch(codes)))

\* variant: the catch raises networkError whatever the closure's lists held
LoadOrdersReject_AlwaysFlags ==
    \E call \in BagToSet(listCalls) :
        /\ IF call.env.empty
           THEN /\ listActive'   = <<>>
                /\ listHistory'  = <<>>
                /\ networkError' = TRUE
           ELSE /\ UNCHANGED <<listActive, listHistory>>
                /\ networkError' = TRUE
        /\ ListFinish(call, Failed)

\* getOrders() rejects: the catch clears the lists when the closure's were empty
LoadOrdersReject ==
    \E call \in BagToSet(listCalls) :
        /\ IF call.env.empty
           THEN /\ listActive'   = <<>>
                /\ listHistory'  = <<>>
                /\ networkError' = TRUE
           ELSE UNCHANGED <<listActive, listHistory, networkError>>
        /\ ListFinish(call, Failed)

----------------------------------------------------------------------------
\* Details view: handlers

\* variant: the threshold is the available code 5 instead of 52
handleStatusCardPress_Threshold5 ==
    /\ mounted
    /\ showStatusModal' = IF order.statusId >= 5 THEN TRUE ELSE showStatusModal
    /\ UNCHANGED <<order, loading, mounted, hasCallback, queried, nextStatusId,
                   requested, pending, sent, lastReply, done, emitted, alert>>
    /\ UNCHANGED <<fetchVars, storageVars, lookupVars, mapperVars, viewVars>>

\* if (order && order.statusId >= 52) setShowStatusModal(true)
handleStatusCardPress ==
    /\ mounted
    /\ showStatusModal' = IF order.statusId >= 52 THEN TRUE ELSE showStatusModal
    /\ UNCHANGED <<order, loading, mounted, hasCallback, queried, nextStatusId,
                   requested, pending, sent, lastReply, done, emitted, alert>>
    /\ UNCHANGED <<fetchVars, storageVars, lookupVars, mapperVars, viewVars>>

\* onRequestClose / close button: setShowStatusModal(false)
CloseStatusModal ==
    /\ mounted
    /\ showStatusModal
    /\ showStatusModal' = FALSE
    /\ UNCHANGED <<order, loading, mounted, hasCallback, queried, nextStatusId,
                   requested, pending, sent, lastReply, done, emitted, alert>>
    /\ UNCHANGED <<fetchVars, storageVars, lookupVars, mapperVars, viewVars>>

\* handleUpdateOrderStatus up to its await updatestatusId({...})
handleUpdateOrderStatus_NoEarlyReturn ==
    /\ mounted
    /\ LET next == getNextStatusId(order.statusId)
           body == [id |-> parseInt(order.id), statusId |-> next]
       IN  /\ queried'      = order.statusId
           /\ nextStatusId' = next
           /\ requested' \in Requestable(order.statusId)
           /\ Len(pending) < MaxPending
           /\ Len(sent) < MaxCalls
           /\ loading' = TRUE
           /\ pending' = Append(pending,
                           [kind |-> "update", body |-> body, snap |-> order])
           /\ sent'    = Append(sent, body)
    /\ UNCHANGED <<order, showStatusModal, mounted, hasCallback, lastReply, done,
                   emitted, alert>>
    /\ UNCHANGED <<fetchVars, storageVars, lookupVars, mapperVars, viewVars>>

handleUpdateOrderStatus_PublishesOnRequest ==
    /\ mounted
    /\ LET next == getNextStatusId(order.statusId)
           body == [id |-> parseInt(order.id), statusId |-> next]
       IN  /\ queried'      = order.statusId
           /\ nextStatusId' = next
           /\ requested' \in Requestable(order.statusId)
           /\ IF Falsy(next)
              THEN UNCHANGED <<loading, pending, sent, emitted, dashVars, listVars>>
              ELSE /\ Len(pending) < MaxPending
                   /\ Len(sent) < MaxCalls
                   /\ loading' = TRUE
                   /\ pending' = Append(pending,
                                   [kind |-> "update", body |-> body, snap |-> order])
                   /\ sent'    = Append(sent, body)
                   /\ Emit
    /\ UNCHANGED <<order, showStatusModal, mounted, hasCallback, lastReply, done, alert>>
    /\ UNCHANGED <<fetchVars, storageVars, lookupVars, mapperVars, subscribers>>

handleUpdateOrderStatus ==
    /\ mounted
    /\ LET next == getNextStatusId(order.statusId)
           body == [id |-> parseInt(order.id), statusId |-> next]
       IN  /\ queried'      = order.statusId
           /\ nextStatusId' = next
           /\ requested' \in Requestable(order.statusId)
           /\ IF Falsy(next)
              THEN UNCHANGED <<loading, pending, sent>>
              ELSE /\ Len(pending) < MaxPending
                   /\ Len(sent) < MaxCalls
                   /\ loading' = TRUE
                   /\ pending' = Append(pending,
                                   [kind |-> "update", body |-> body, snap |-> order])
                   /\ sent'    = Append(sent, body)
    /\ UNCHANGED <<order, showStatusModal, mounted, hasCallback, lastReply, done,
                   emitted, alert>>
    /\ UNCHANGED <<fetchVars, storageVars, lookupVars, mapperVars, viewVars>>

\* the Accept button's onPress up to its await updatestatusId({..., statusId: 52})
AcceptPress ==
    /\ mounted
    /\ AcceptOffered
    /\ Len(pending) < MaxPending
    /\ Len(sent) < MaxCalls
    /\ LET body == [id |-> parseInt(order.id), statusId |-> 52]
       IN  /\ pending' = Append(pending,
                           [kind |-> "accept", body |-> body, snap |-> order])
           /\ sent'    = Append(sent, body)
    /\ loading' = TRUE
    /\ UNCHANGED <<order, showStatusModal, mounted, hasCallback, queried,
                   nextStatusId, requested, lastReply, done, emitted, alert>>
    /\ UNCHANGED <<fetchVars, storageVars, lookupVars, mapperVars, viewVars>>

\* a call of updatestatusId settles: bookkeeping common to all four outcomes
Settle(i, ok) ==
    /\ pending'   = RemoveAt(pending, i)
    /\ lastReply' = [kind |-> pending[i].kind, statusId |-> pending[i].body.statusId,
                     ok |-> ok]
    /\ done'      = done + 1
    /\ UNCHANGED <<hasCallback, queried, nextStatusId, requested, sent>>
    /\ UNCHANGED <<fetchVars, storageVars, lookupVars, mapperVars, subscribers>>

\* onOrderStatusUpdate?.() if route.params carries it, else navigation.goBack()
AfterEmit == mounted' = IF hasCallback THEN mounted ELSE FALSE

\* variant: only statusId is replaced, the status name is left as it was
UpdateResolved_StaleName(p) ==
    /\ order' = [p.snap EXCEPT !.statusId = p.body.statusId]
    /\ Emit
    /\ AfterEmit
    /\ showStatusModal' = FALSE
    /\ alert'   = "Success"
    /\ loading' = FALSE

\* handleUpdateOrderStatus after the await returned: local update, emit, alert
UpdateResolved(p) ==
    /\ order' = [p.snap EXCEPT
                   !.statusId = p.body.statusId,
                   !.status   = IF StatusNameOf(toString(p.body.statusId)) # Undefined
                                THEN StatusNameOf(toString(p.body.statusId))
                                ELSE p.snap.status]
    /\ Emit
    /\ AfterEmit
    /\ showStatusModal' = FALSE
    /\ alert'   = "Success"
    /\ loading' = FALSE

\* variant: the emit sits in the finally block, so it also runs after a failure
UpdateRejected_EmitInFinally(p) ==
    /\ alert'   = "Error"
    /\ loading' = FALSE
    /\ Emit
    /\ UNCHANGED <<order, mounted, showStatusModal>>

\* handleUpdateOrderStatus: catch (error) { Alert.alert('Error', ...) } finally
UpdateRejected(p) ==
    /\ alert'   = "Error"
    /\ loading' = FALSE
    /\ UNCHANGED <<order, emitted, mounted, showStatusModal>>
    /\ UNCHANGED <<dashVars, listVars>>

\* Accept onPress after the await returned: emit, callback or goBack, alert
AcceptResolved(p) ==
    /\ Emit
    /\ AfterEmit
    /\ alert'   = "Success"
    /\ loading' = FALSE
    /\ UNCHANGED <<order, showStatusModal>>

\* Accept onPress: catch (error) { Alert.alert('Error', ...) } finally
AcceptRejected(p) ==
    /\ alert'   = "Error"
    /\ loading' = FALSE
    /\ UNCHANGED <<order, emitted, mounted, showStatusModal>>
    /\ UNCHANGED <<dashVars, listVars>>

UpdateStatusSucceeds ==
    \E i \in 1..Len(pending) :
        /\ pending[i].kind = "update"
        /\ UpdateResolved(pending[i])
        /\ Settle(i, TRUE)

UpdateStatusFails ==
    \E i \in 1..Len(pending) :
        /\ pending[i].kind = "update"
        /\ UpdateRejected(pending[i])
        /\ Settle(i, FALSE)

AcceptSucceeds ==
    \E i \in 1..Len(pending) :
        /\ pending[i].kind = "accept"
        /\ AcceptResolved(pending[i])
        /\ Settle(i, TRUE)

AcceptFails ==
    \E i \in 1..Len(pending) :
        /\ pending[i].kind = "accept"
        /\ AcceptRejected(pending[i])
        /\ Settle(i, FALSE)

----------------------------------------------------------------------------
\* Rejection ledger (RejectedOrdersStorage over the AsyncStorage item
\* 'rejected_orders').  A date string YYYY-MM-DD is the number of its day;
\* an instant is a number of ticks, DayLength of them to a day.

DayLength == 2        \* 1000 * 60 * 60 * 24 ms, in ticks of twelve hours

LedgerIds == {toString(i) : i \in 1..MaxLedgerId}

\* getItem gives null: nothing is stored under the key
NoItem == [date |-> Null, orderIds |-> <<>>]

\* new Date().toISOString().split('T')[0]: the UTC day the clock is in
getCurrentDateString == clock \div DayLength

\* new Date(dateString).getTime(): midnight UTC of that day
getTime(dateString) == dateString * DayLength

\* Math.ceil(x / d)
ceil(x, d) == 0 - ((0 - x) \div d)

isDateOlderThan3Days(dateString) ==
    LET diffTime == clock - getTime(dateString)
        diffDays == ceil(diffTime, DayLength)
    IN  diffDays > 3

\* [...new Set(ids)]: the first occurrence of every id, in order
RECURSIVE Unique(_)
Unique(ids) ==
    IF ids = <<>> THEN <<>>
    ELSE LET front == Unique(SubSeq(ids, 1, Len(ids) - 1))
             last  == ids[Len(ids)]
         IN  IF \E j \in 1..Len(front) : front[j] = last
             THEN front
             ELSE Append(front, last)

\* getRejectedOrdersData: the parsed item, null when getItem throws
getRejectedOrdersData(getItemOk) ==
    IF getItemOk THEN stored ELSE NoItem

rejectedData_Appends(existingData, currentDate, orderId) ==
    IF existingData # NoItem /\ existingData.date = currentDate
    THEN [date |-> currentDate, orderIds |-> Append(existingData.orderIds, orderId)]
    ELSE [date |-> currentDate, orderIds |-> <<orderId>>]

rejectedData_Merges(existingData, currentDate, orderId) ==
    IF existingData # NoItem
    THEN [date     |-> currentDate,
          orderIds |-> Unique(Append(existingData.orderIds, orderId))]
    ELSE [date |-> currentDate, orderIds |-> <<orderId>>]

\* the record addRejectedOrder writes (let rejectedData)
rejectedData(existingData, currentDate, orderId) ==
    IF existingData # NoItem /\ existingData.date = currentDate
    THEN [date     |-> currentDate,
          orderIds |-> Unique(Append(existingData.orderIds, orderId))]
    ELSE [date |-> currentDate, orderIds |-> <<orderId>>]

\* the AsyncStorage calls that threw, of those a ledger call made
Thrown(getItemOk, setItemOk, removeItemOk) ==
    {call \in {"getItem"} : ~getItemOk} \cup {call \in {"setItem"} : ~setItemOk}
        \cup {call \in {"removeItem"} : ~removeItemOk}

\* what a ledger call leaves in lastCall: its name and argument, which of
\* its AsyncStorage calls threw, what it returned, whether it threw, the
\* item it found and how many calendar days old its date was
AgeInDays(item) ==
    IF item = NoItem THEN 0 ELSE getCurrentDateString - item.date

Called(op, orderId, failed, ids, answer, threw) ==
    lastCall' = [op |-> op, orderId |-> orderId, failed |-> failed, ids |-> ids,
                 answer |-> answer, threw |-> threw, before |-> stored,
                 age |-> AgeInDays(stored), tick |-> 1 - lastCall.tick]

\* time passes
Tick ==
    /\ clock < (MaxDay + 1) * DayLength - 1
    /\ clock' = clock + 1
    /\ UNCHANGED <<stored, lastCall, adding, completed>>
    /\ UNCHANGED <<fetchVars, detailsVars, viewVars, lookupVars, mapperVars>>

addRejectedOrder ==
    \E orderId \in LedgerIds, getItemOk \in BOOLEAN, setItemOk \in BOOLEAN :
        LET currentDate  == getCurrentDateString
            existingData == getRejectedOrdersData(getItemOk)
            data         == rejectedData(existingData, currentDate, orderId)
        IN  /\ stored' = IF setItemOk THEN data ELSE stored
            \* the catch of addRejectedOrder logs what setItem threw
            /\ Called("addRejectedOrder", orderId, Thrown(getItemOk, setItemOk, TRUE),
                      <<>>, FALSE, FALSE)
            /\ UNCHANGED <<clock, adding, completed>>
            /\ UNCHANGED <<fetchVars, detailsVars, viewVars, lookupVars, mapperVars>>

\* addRejectedOrder up to its await getRejectedOrdersData(): the call holds
\* the date and the record it read until its setItem
addRejectedOrderRead ==
    \E orderId \in LedgerIds, getItemOk \in BOOLEAN :
        /\ Len(adding) + Len(completed) < MaxAdds
        /\ adding' = Append(adding, [orderId      |-> orderId,
                                     currentDate  |-> getCurrentDateString,
                                     existingData |-> getRejectedOrdersData(getItemOk),
                                     failed       |-> Thrown(getItemOk, TRUE, TRUE)])
        /\ UNCHANGED <<stored, clock, lastCall, completed>>
        /\ UNCHANGED <<fetchVars, detailsVars, viewVars, lookupVars, mapperVars>>

\* the rest of addRejectedOrder: await AsyncStorage.setItem(key, rejectedData);
\* the catch logs what setItem threw
addRejectedOrderWrite ==
    \E i \in 1..Len(adding), setItemOk \in BOOLEAN :
        LET call == adding[i]
            data == rejectedData(call.existingData, call.currentDate, call.orderId)
        IN  /\ stored'    = IF setItemOk THEN data ELSE stored
            /\ adding'    = RemoveAt(adding, i)
            /\ completed' = Append(completed,
                                [orderId |-> call.orderId,
                                 date    |-> call.currentDate,
                                 failed  |-> call.failed \cup Thrown(TRUE, setItemOk, TRUE)])
            /\ UNCHANGED <<clock, lastCall>>
            /\ UNCHANGED <<fetchVars, detailsVars, viewVars, lookupVars, mapperVars>>

clearRejectedOrdersResult_Unguarded(removeItemOk) ==
    [item  |-> IF removeItemOk THEN NoItem ELSE stored,
     threw |-> ~removeItemOk]

\* clearRejectedOrders: the item it leaves and whether it throws; its catch
\* logs what removeItem threw
clearRejectedOrdersResult(removeItemOk) ==
    [item  |-> IF removeItemOk THEN NoItem ELSE stored,
     threw |-> FALSE]

clearRejectedOrders ==
    \E removeItemOk \in BOOLEAN :
        LET cleared == clearRejectedOrdersResult(removeItemOk)
        IN  /\ stored' = cleared.item
            /\ Called("clearRejectedOrders", "", Thrown(TRUE, TRUE, removeItemOk),
                      <<>>, FALSE, cleared.threw)
            /\ UNCHANGED <<clock, adding, completed>>
            /\ UNCHANGED <<fetchVars, detailsVars, viewVars, lookupVars, mapperVars>>

getRejectedOrderIdsResult_KeepsItem(getItemOk, removeItemOk) ==
    LET data == getRejectedOrdersData(getItemOk)
    IN  IF data = NoItem
        THEN [ids |-> <<>>, item |-> stored, threw |-> FALSE,
              failed |-> Thrown(getItemOk, TRUE, TRUE)]
        ELSE IF isDateOlderThan3Days(data.date)
        THEN [ids |-> <<>>, item |-> stored, threw |-> FALSE,
              failed |-> Thrown(TRUE, TRUE, removeItemOk)]
        ELSE [ids |-> data.orderIds, item |-> stored, threw |-> FALSE, failed |-> {}]

\* getRejectedOrderIds: the ids it returns, the item it leaves, the storage
\* calls it made all succeeding or not, and whether it throws.  Whatever the
\* try block throws is caught and gives [].
getRejectedOrderIdsResult(getItemOk, removeItemOk) ==
    LET data == getRejectedOrdersData(getItemOk)
    IN  IF data = NoItem
        THEN [ids |-> <<>>, item |-> stored, threw |-> FALSE,
              failed |-> Thrown(getItemOk, TRUE, TRUE)]
        ELSE IF isDateOlderThan3Days(data.date)
        THEN LET cleared == clearRejectedOrdersResult(removeItemOk)
             IN  [ids |-> <<>>, item |-> cleared.item, threw |-> FALSE,
                  failed |-> Thrown(TRUE, TRUE, removeItemOk)]
        ELSE [ids |-> data.orderIds, item |-> stored, threw |-> FALSE, failed |-> {}]

getRejectedOrderIds ==
    \E getItemOk \in BOOLEAN, removeItemOk \in BOOLEAN :
        LET got == getRejectedOrderIdsResult(getItemOk, removeItemOk)
        IN  /\ stored' = got.item
            /\ Called("getRejectedOrderIds", "", got.failed, got.ids, FALSE, got.threw)
            /\ UNCHANGED <<clock, adding, completed>>
            /\ UNCHANGED <<fetchVars, detailsVars, viewVars, lookupVars, mapperVars>>

\* rejectedIds.includes(orderId)
includes(ids, orderId) == \E j \in 1..Len(ids) : ids[j] = orderId

isOrderRejected ==
    \E orderId \in LedgerIds, getItemOk \in BOOLEAN, removeItemOk \in BOOLEAN :
        LET got == getRejectedOrderIdsResult(getItemOk, removeItemOk)
        IN  /\ stored' = got.item
            /\ Called("isOrderRejected", orderId, got.failed, got.ids,
                      includes(got.ids, orderId), got.threw)
            /\ UNCHANGED <<clock, adding, completed>>
            /\ UNCHANGED <<fetchVars, detailsVars, viewVars, lookupVars, mapperVars>>

cleanupOldRejectedOrders ==
    \E getItemOk \in BOOLEAN, removeItemOk \in BOOLEAN :
        LET data    == getRejectedOrdersData(getItemOk)
            expired == data # NoItem /\ isDateOlderThan3Days(data.date)
            cleared == clearRejectedOrdersResult(removeItemOk)
        IN  /\ stored' = IF expired THEN cleared.item ELSE stored
            /\ Called("cleanupOldRejectedOrders", "",
                      Thrown(getItemOk, TRUE, expired => removeItemOk),
                      <<>>, FALSE, FALSE)
            /\ UNCHANGED <<clock, adding, completed>>
            /\ UNCHANGED <<fetchVars, detailsVars, viewVars, lookupVars, mapperVars>>

----------------------------------------------------------------------------
\* Details view opened with an order id: fetchOrderDetails

LookupCodes == {52, 58}

\* the responses a source can give: record i carries id i
LookupBatches == UNION {[1..n -> LookupCodes] : n \in 0..MaxLookupBatch}

\* how each source answers the lookup: Returned(raw) or Failed
Sources == {Failed} \cup {Returned(RawBatch(codes)) : codes \in LookupBatches}

\* setOrder(null)
NoOrder == [id |-> "", status |-> Undefined, statusId |-> Null]

\* orders.find(o => o.id === orderId) || null
find(orders, id) ==
    IF \E j \in 1..Len(orders) : orders[j].id = id
    THEN orders[CHOOSE j \in 1..Len(orders) :
                    /\ orders[j].id = id
                    /\ \A k \in 1..(j - 1) : orders[k].id # id]
    ELSE NoOrder

\* setOrder(foundOrder || null), then the finally: setFetchingOrder(false)
LookupFinish(foundOrder) ==
    /\ order'         = foundOrder
    /\ fetchingOrder' = FALSE
    /\ lookupPc'      = "done"
    /\ UNCHANGED <<routeOrderId, availableSource, assignedSource>>
    /\ UNCHANGED <<loading, showStatusModal, mounted, hasCallback, queried, nextStatusId,
                   requested, pending, sent, lastReply, done, emitted, alert>>
    /\ UNCHANGED <<fetchVars, viewVars, storageVars, mapperVars>>

\* if (!foundOrder): await getOrders() is next
LookupAssigned ==
    /\ lookupPc' = "assigned"
    /\ UNCHANGED <<fetchingOrder, routeOrderId, availableSource, assignedSource>>
    /\ UNCHANGED <<fetchVars, detailsVars, viewVars, storageVars, mapperVars>>

\* availableOrders = await GetOrderByUser(); foundOrder = availableOrders.find(...)
AvailableOrdersReturn ==
    /\ lookupPc = "available"
    /\ availableSource.ok
    /\ LET foundOrder == find(MapOrders(availableSource.raw), routeOrderId)
       IN  IF foundOrder # NoOrder THEN LookupFinish(foundOrder) ELSE LookupAssigned

AvailableOrdersThrow_Aborts ==
    /\ lookupPc = "available"
    /\ ~availableSource.ok
    /\ LookupFinish(NoOrder)

\* catch (availableOrdersError): warn, foundOrder stays undefined
AvailableOrdersThrow ==
    /\ lookupPc = "available"
    /\ ~availableSource.ok
    /\ LookupAssigned

\* assignedOrders = await getOrders(); foundOrder = assignedOrders.find(...)
AssignedOrdersReturn ==
    /\ lookupPc = "assigned"
    /\ assignedSource.ok
    /\ LookupFinish(find(MapOrders(assignedSource.raw), routeOrderId))

\* catch (assignedOrdersError): warn, foundOrder stays undefined
AssignedOrdersThrow ==
    /\ lookupPc = "assigned"
    /\ ~assignedSource.ok
    /\ LookupFinish(NoOrder)

----------------------------------------------------------------------------
\* Order Mapper: the payment method.  A string is the sequence of its
\* characters.

Letters  == <<"a", "b", "c", "d", "e", "f", "g", "h", "i", "j", "k", "l", "m",
              "n", "o", "p", "q", "r", "s", "t", "u", "v", "w", "x", "y", "z">>
Capitals == <<"A", "B", "C", "D", "E", "F", "G", "H", "I", "J", "K", "L", "M",
              "N", "O", "P", "Q", "R", "S", "T", "U", "V", "W", "X", "Y", "Z">>

\* String.prototype.toLowerCase()
toLowerCase(s) ==
    [j \in 1..Len(s) |->
        IF \E k \in 1..Len(Capitals) : Capitals[k] = s[j]
        THEN Letters[CHOOSE k \in 1..Len(Capitals) : Capitals[k] = s[j]]
        ELSE s[j]]

\* a.paymentTypeName is null: not a string
NullName == <<"null">>

\* the case labels of the switch
PayOnDelivery == <<"p", "a", "y", " ", "o", "n", " ", "d", "e", "l", "i", "v", "e", "r", "y">>
Cash          == <<"c", "a", "s", "h">>
Card          == <<"c", "a", "r", "d">>
Upi           == <<"u", "p", "i">>

paymentMethod_CaseSensitive(a) ==
    IF a.paymentTypeName = NullName THEN "TypeError"
    ELSE LET name == a.paymentTypeName
         IN  CASE name \in {PayOnDelivery, Cash} -> "cash"
               [] name = Card                    -> "card"
               [] name = Upi                     -> "upi"
               [] OTHER                          -> "cash"

\* let paymentMethod, as the switch over a.paymentTypeName.toLowerCase()
\* leaves it; calling toLowerCase on null throws a TypeError
paymentMethod(a) ==
    IF a.paymentTypeName = NullName THEN "TypeError"
    ELSE LET name == toLowerCase(a.paymentTypeName)
         IN  CASE name \in {PayOnDelivery, Cash} -> "cash"
               [] name = Card                    -> "card"
               [] name = Upi                     -> "upi"
               [] OTHER                          -> "cash"

\* payment type names the backend may send: these words with any of their
\* first MaxCapitals letters in upper case, or null
PaymentWords ==
    {PayOnDelivery, Cash, Card, Upi, <<>>,
     <<"c", "a", "r", "d", "s">>, <<" ", "c", "a", "r", "d">>, <<"u", "p">>,
     <<"w", "a", "l", "l", "e", "t">>, <<"c", "o", "d">>}

Capitalised(word, caps) ==
    [j \in 1..Len(word) |->
        IF j \in caps /\ \E k \in 1..Len(Letters) : Letters[k] = word[j]
        THEN Capitals[CHOOSE k \in 1..Len(Letters) : Letters[k] = word[j]]
        ELSE word[j]]

PaymentTypeNames ==
    {Capitalised(word, caps) : word \in PaymentWords, caps \in SUBSET (1..MaxCapitals)}
        \cup {NullName}

\* mapApiOrderToOrder(a) computes the payment method of the record
MapPayment ==
    /\ mappedPayment = "unmapped"
    /\ mappedPayment' = paymentMethod([paymentTypeName |-> apiPayment])
    /\ UNCHANGED apiPayment
    /\ UNCHANGED <<fetchVars, detailsVars, viewVars, storageVars, lookupVars>>

----------------------------------------------------------------------------
\* Initial states and specifications

FetchInit ==
    /\ fetchPc       = "idle"
    /\ httpStatus    = "none"
    /\ fetchFn       = "none"
    /\ apiOrders     = <<>>
    /\ ordermaster   = <<>>
    /\ currentOrders = <<>>
    /\ pastOrders    = <<>>

\* the details screen opened on an order the mapper produced (route.params.order)
DetailsInit ==
    /\ \E i \in 1..MaxId, c \in Codes : order = mapApiOrderToOrder(RawOrder(i, c))
    /\ loading         = FALSE
    /\ showStatusModal = FALSE
    /\ mounted         = TRUE
    /\ hasCallback \in BOOLEAN
    /\ queried         = Null
    /\ nextStatusId    = Null
    /\ requested       = Null
    /\ pending         = <<>>
    /\ sent            = <<>>
    /\ lastReply       = [kind |-> "none", statusId |-> 0, ok |-> TRUE]
    /\ done            = 0
    /\ emitted         = 0
    /\ alert           = "none"

BusInit == subscribers = {}

\* no dashboard mounted yet
DashInit ==
    /\ isOnline \in BOOLEAN
    /\ dashMounted      = FALSE
    /\ dashGen          = 0
    /\ dashMountOnline  = FALSE
    /\ dashActiveOrders = <<>>
    /\ dashRefreshing   = FALSE
    /\ dashLoads        = EmptyBag
    /\ fetchTick        = 0
    /\ lastFetched      = <<>>
    /\ dashAlert        = "none"

\* one details screen, fixed, beside the views
DetailsFixed ==
    /\ DetailsInit
    /\ order = mapApiOrderToOrder(RawOrder(1, 52))
    /\ ~hasCallback

\* no orders list mounted yet
ListInit ==
    /\ ledger \in SUBSET {toString(1)}
    /\ listMounted      = FALSE
    /\ listGen          = 0
    /\ listActive       = <<>>
    /\ listHistory      = <<>>
    /\ isLoading        = FALSE
    /\ listRefreshing   = FALSE
    /\ networkError     = FALSE
    /\ rejectedOrderIds = {}
    /\ activeTab        = "active"
    /\ storagePending   = FALSE
    /\ timerEnv         = FirstRender
    /\ timers           = EmptyBag
    /\ listCalls        = EmptyBag
    /\ lastResponse     = Returned(<<>>)

\* nothing stored yet, day 0 at midnight
StorageInit ==
    /\ stored     = NoItem
    /\ clock        = 0
    /\ lastCall   = [op |-> "none", orderId |-> "", failed |-> {}, ids |-> <<>>,
                     answer |-> FALSE, threw |-> FALSE, before |-> NoItem,
                     age |-> 0, tick |-> 0]
    /\ adding     = <<>>
    /\ completed  = <<>>

\* no record is being mapped
MapperInit ==
    /\ apiPayment    = Cash
    /\ mappedPayment = "cash"

\* the order itself was passed: the effect returns at once
LookupInit ==
    /\ fetchingOrder   = FALSE
    /\ routeOrderId    = ""
    /\ lookupPc        = "idle"
    /\ availableSource = Failed
    /\ assignedSource  = Failed

NoViews == BusInit /\ DashInit /\ isOnline /\ ListInit /\ ledger = {} /\ StorageInit /\ LookupInit /\ MapperInit

Init == FetchInit /\ DetailsInit /\ NoViews

Next ==
    \/ handleStatusCardPress
    \/ CloseStatusModal
    \/ handleUpdateOrderStatus
    \/ AcceptPress
    \/ UpdateStatusSucceeds
    \/ UpdateStatusFails
    \/ AcceptSucceeds
    \/ AcceptFails

Spec == Init /\ [][Next]_vars

\* the order queries alone, beside a details screen left untouched
InitFetch ==
    /\ FetchInit
    /\ DetailsInit
    /\ order = mapApiOrderToOrder(RawOrder(1, 52))
    /\ hasCallback
    /\ NoViews

NextFetch ==
    \/ getOrders
    \/ getOrdersFails
    \/ GetOrderByUser
    \/ GetOrderByUserFails
    \/ FilterOrders

SpecFetch == InitFetch /\ [][NextFetch]_vars

\* the dashboard, with publishes of orderUpdated arriving from other screens
InitDash == FetchInit /\ DetailsFixed /\ BusInit /\ DashInit /\ ListInit /\ ledger = {} /\ StorageInit /\ LookupInit /\ MapperInit

NextDash ==
    \/ DashMount
    \/ DashHandleRefresh
    \/ DashOrdersResolve
    \/ DashOrdersReject
    \/ DashWalletResolve
    \/ DashWalletReject
    \/ handleToggleOnlineStatus
    \/ Publish

SpecDash == InitDash /\ [][NextDash]_vars

\* the orders list, with publishes of orderUpdated arriving from other screens
InitList ==
    FetchInit /\ DetailsFixed /\ BusInit /\ DashInit /\ isOnline /\ ListInit /\ ledger # {} /\ StorageInit /\ LookupInit /\ MapperInit

NextList ==
    \/ ListMount
    \/ CheckStorageValues
    \/ AutoRefresh
    \/ ListHandleRefresh
    \/ LoadOrdersResolve
    \/ LoadOrdersReject
    \/ Publish

SpecList == InitList /\ [][NextList]_vars

\* the orders list under tab switches: every switch reruns the [activeTab] effect
NextTabs ==
    \/ ListMount
    \/ ListUnmount
    \/ SetActiveTab
    \/ CheckStorageValues
    \/ AutoRefresh
    \/ LoadOrdersResolve
    \/ LoadOrdersReject

SpecTabs == InitList /\ [][NextTabs]_vars

\* either screen under every source of loads: mount, interval,
\* pull-to-refresh, orderUpdated, with success and failure. The two screens
\* share no state, and the specification follows one of them at a time.
InitLoads ==
    FetchInit /\ DetailsFixed /\ BusInit /\ DashInit /\ ListInit /\ StorageInit /\ LookupInit /\ MapperInit

NextLoads ==
    \/ (~dashMounted /\ NextList)
    \/ (~listMounted /\ NextDash)

SpecLoads == InitLoads /\ [][NextLoads]_vars

\* both views beside a details screen whose status update publishes orderUpdated
InitBus ==
    FetchInit /\ DetailsFixed /\ BusInit /\ DashInit /\ isOnline /\ ListInit /\ ledger = {} /\ StorageInit /\ LookupInit /\ MapperInit

NextBus ==
    \/ DashMount
    \/ DashUnmount
    \/ ListMount
    \/ ListUnmount
    \/ handleStatusCardPress
    \/ handleUpdateOrderStatus
    \/ UpdateStatusSucceeds
    \/ DashOrdersReject
    \/ DashWalletResolve
    \/ LoadOrdersReject

SpecBus == InitBus /\ [][NextBus]_vars

InitLedger == FetchInit /\ DetailsFixed /\ NoViews

NextLedger ==
    \/ Tick
    \/ addRejectedOrder
    \/ getRejectedOrderIds
    \/ isOrderRejected
    \/ cleanupOldRejectedOrders

SpecLedger == InitLedger /\ [][NextLedger]_vars

NextStorage ==
    \/ NextLedger
    \/ clearRejectedOrders

SpecStorage == InitLedger /\ [][NextStorage]_vars

\* the ledger under addRejectedOrder calls whose awaits interleave
NextAdds ==
    \/ Tick
    \/ addRejectedOrderRead
    \/ addRejectedOrderWrite

SpecAdds == InitLedger /\ [][NextAdds]_vars

\* opened with { orderId }: order is null, fetchingOrder true, and the effect
\* has called GetOrderByUser
InitLookup ==
    /\ FetchInit /\ BusInit /\ DashInit /\ isOnline /\ ListInit /\ ledger = {} /\ StorageInit /\ MapperInit
    /\ order           = NoOrder
    /\ loading         = FALSE
    /\ showStatusModal = FALSE
    /\ mounted         = TRUE
    /\ hasCallback     = FALSE
    /\ queried         = Null
    /\ nextStatusId    = Null
    /\ requested       = Null
    /\ pending         = <<>>
    /\ sent            = <<>>
    /\ lastReply       = [kind |-> "none", statusId |-> 0, ok |-> TRUE]
    /\ done            = 0
    /\ emitted         = 0
    /\ alert           = "none"
    /\ fetchingOrder   = TRUE
    /\ routeOrderId \in {toString(i) : i \in 1..MaxLookupBatch}
    /\ lookupPc        = "available"
    /\ availableSource \in Sources
    /\ assignedSource \in Sources

NextLookup ==
    \/ AvailableOrdersReturn
    \/ AvailableOrdersThrow
    \/ AssignedOrdersReturn
    \/ AssignedOrdersThrow

SpecLookup == InitLookup /\ [][NextLookup]_vars

InitMapper ==
    /\ FetchInit /\ DetailsFixed
    /\ BusInit /\ DashInit /\ isOnline /\ ListInit /\ ledger = {} /\ StorageInit /\ LookupInit
    /\ apiPayment \in PaymentTypeNames
    /\ mappedPayment = "unmapped"

NextMapper == MapPayment

SpecMapper == InitMapper /\ [][NextMapper]_vars

TypeOK ==
    /\ fetchPc \in {"idle", "fetched", "failed", "filtered"}
    /\ loading \in BOOLEAN
    /\ showStatusModal \in BOOLEAN
    /\ Len(pending) <= MaxPending
    /\ Len(sent) <= MaxCalls
    /\ done <= MaxCalls
    /\ OfferedStatusUpdates \subseteq Codes
    /\ isOnline \in BOOLEAN
    /\ dashRefreshing \in BOOLEAN
    /\ Outstanding(dashLoads) <= MaxDashLoads
    /\ Len(dashActiveOrders) <= MaxDashBatch
    /\ isLoading \in BOOLEAN
    /\ listRefreshing \in BOOLEAN
    /\ networkError \in BOOLEAN
    /\ rejectedOrderIds \subseteq ledger
    /\ Outstanding(listCalls) <= MaxListCalls
    /\ Len(listActive) + Len(listHistory) <= MaxListBatch
    /\ clock \in 0..((MaxDay + 1) * DayLength - 1)
    /\ stored = NoItem \/ stored.date \in 0..MaxDay
    /\ lastCall.failed \subseteq {"getItem", "setItem", "removeItem"}
    /\ fetchingOrder \in BOOLEAN
    /\ lookupPc \in {"idle", "available", "assigned", "done"}
    /\ mappedPayment \in {"unmapped", "cash", "card", "upi", "TypeError"}

----------------------------------------------------------------------------
\* Properties

\* the registry as the specification states it, by numeric code
RegisteredCodes == {4, 5, 8, 52, 53, 54, 55, 56, 57, 58, 59, 65, 263}

RegistryName(c) ==
    CASE c = 4   -> "pending"
      [] c = 5   -> "accepted"
      [] c = 8   -> "cancelled"
      [] c = 52  -> "assigned"
      [] c = 53  -> "started"
      [] c = 54  -> "picked"
      [] c = 55  -> "missing_items"
      [] c = 56  -> "out_for_delivery"
      [] c = 57  -> "reached"
      [] c = 58  -> "delivered"
      [] c = 59  -> "not_picked"
      [] c = 65  -> "at_the_restaurant"
      [] c = 263 -> "customer_not_showed_up"

ProgressionKeys == {52, 53, 65, 54, 56, 57}

\* number of positions of seq holding an order with this id
Occurrences(seq, id) == Cardinality({j \in 1..Len(seq) : seq[j].id = id})

\* C1: for every code of the progression table's key set, getNextStatusId
\* returns the table's successor: 52->53, 53->65, 65->54, 54->56, 56->57,
\* and 58 for 57.
C1_NextStatusIsTableSuccessor ==
    queried \in ProgressionKeys =>
        nextStatusId = (CASE queried = 52 -> 53
                          [] queried = 53 -> 65
                          [] queried = 65 -> 54
                          [] queried = 54 -> 56
                          [] queried = 56 -> 57
                          [] queried = 57 -> 58)

\* handleUpdateOrderStatus has asked for the successor of 53 after one
\* successful update from 52
C1_Witness ==
    /\ queried = 53
    /\ nextStatusId = 65
    /\ done = 1

\* C2: for every code outside {52,53,65,54,56,57} (58, 263, 55, 59, 4, 5, 8,
\* unregistered codes) getNextStatusId returns null.
C2_NoSuccessorOutsideTable ==
    (queried # Null /\ queried \notin ProgressionKeys) => nextStatusId = Null

\* handleUpdateOrderStatus has asked for the successor of the no-show code
C2_Witness ==
    /\ queried = 263
    /\ nextStatusId = Null

\* C3: filterOrders partitions its input: every input order is in exactly one
\* of currentOrders and pastOrders, it is in pastOrders iff its statusId is
\* 58, and nothing else is in either list.
C3_FilterOrdersPartitions ==
    fetchPc = "filtered" =>
        /\ Len(currentOrders) + Len(pastOrders) = Len(ordermaster)
        /\ \A i \in 1..Len(ordermaster) :
              LET o == ordermaster[i] IN
              /\ Occurrences(currentOrders, o.id) + Occurrences(pastOrders, o.id) = 1
              /\ (Occurrences(pastOrders, o.id) = 1) <=> (o.statusId = 58)
              /\ \A j \in 1..Len(currentOrders) : currentOrders[j].id = o.id
                                                  => currentOrders[j] = o
              /\ \A j \in 1..Len(pastOrders) : pastOrders[j].id = o.id
                                               => pastOrders[j] = o

\* a delivered, a cancelled and a no-show order have been filtered
C3_Witness ==
    /\ fetchPc = "filtered"
    /\ Len(pastOrders) = 1
    /\ pastOrders[1].statusId = 58
    /\ Len(currentOrders) = 2
    /\ {currentOrders[1].statusId, currentOrders[2].statusId} = {8, 263}

\* C4: every raw order whose code is in the Status Registry is mapped to an
\* Order with the same statusId and the registry's name for that code.
C4_MappedStatusAgreesWithRegistry ==
    fetchPc \in {"fetched", "filtered"} =>
        \A i \in 1..Len(apiOrders) :
            apiOrders[i].statusId \in RegisteredCodes =>
                /\ i <= Len(ordermaster)
                /\ ordermaster[i].statusId = apiOrders[i].statusId
                /\ ordermaster[i].status = RegistryName(apiOrders[i].statusId)

\* a raw order with code 52 has been mapped to status 'assigned'
C4_Witness ==
    /\ fetchPc = "fetched"
    /\ Len(ordermaster) = 1
    /\ apiOrders[1].statusId = 52
    /\ ordermaster[1].status = "assigned"

\* C5: the mapper returns no Order for a record whose status code has no
\* registry entry (the mapping of that record fails with UnknownStatus).
C5_UnknownStatusIsNotMapped ==
    \A i \in 1..Len(ordermaster) :
        /\ ordermaster[i].statusId \in RegisteredCodes
        /\ ordermaster[i].status # Undefined

\* C6: a response holding a record with an unregistered code does not make
\* the query fail: it returns, and every record with a registered code is
\* there with its registry-consistent status.
C6_BadOrderDoesNotFailTheBatch ==
    (/\ httpStatus = "ok"
     /\ \E k \in 1..Len(apiOrders) : apiOrders[k].statusId \notin RegisteredCodes)
    =>
        /\ fetchPc # "failed"
        /\ Len(ordermaster) = Len(apiOrders)
        /\ \A i \in 1..Len(apiOrders) :
              apiOrders[i].statusId \in RegisteredCodes =>
                  /\ ordermaster[i].id = toString(apiOrders[i].id)
                  /\ ordermaster[i].statusId = apiOrders[i].statusId
                  /\ ordermaster[i].status = RegistryName(apiOrders[i].statusId)

\* a response of three records, the first unregistered, has been returned
C6_Witness ==
    /\ httpStatus = "ok"
    /\ fetchPc = "fetched"
    /\ Len(apiOrders) = 3
    /\ apiOrders[1].statusId = 999
    /\ ordermaster[2].status = "delivered"
    /\ ordermaster[3].status = "cancelled"

\* the displayed order's name is the registry's name of its code
StatusAgrees(o) ==
    o.statusId \in RegisteredCodes => o.status = RegistryName(o.statusId)

\* C7: when the backend call of handleUpdateOrderStatus succeeds, the
\* displayed order gets the requested statusId and the registry name of that
\* code in the same step, and orderUpdated is emitted; name and code of the
\* displayed order never disagree.
C7_SuccessUpdatesStatusAndIdTogether ==
    /\ []StatusAgrees(order)
    /\ [][(done' = done + 1 /\ lastReply'.kind = "update" /\ lastReply'.ok) =>
             /\ order'.statusId = lastReply'.statusId
             /\ order'.status = RegistryName(lastReply'.statusId)
             /\ order'.id = order.id
             /\ emitted' = emitted + 1]_vars

\* an update from 52 has succeeded
C7_Witness ==
    /\ done = 1
    /\ lastReply = [kind |-> "update", statusId |-> 53, ok |-> TRUE]
    /\ order.statusId = 53
    /\ order.status = "started"
    /\ emitted = 1

\* C8: when the backend call of a transition or of an accept fails, the
\* displayed order is unchanged, no orderUpdated is emitted and an error
\* alert is shown.
C8_FailureLeavesOrderUnchanged ==
    [][(done' = done + 1 /\ ~lastReply'.ok) =>
          /\ order' = order
          /\ emitted' = emitted
          /\ alert' = "Error"]_vars

\* an update from 52 has failed after an earlier one succeeded
C8_Witness ==
    /\ done = 2
    /\ lastReply = [kind |-> "update", statusId |-> 65, ok |-> FALSE]
    /\ order.statusId = 53
    /\ emitted = 1
    /\ alert = "Error"

\* C9: the status card is enabled iff the order's statusId is >= 52, and the
\* status modal is never open for an order below 52.
C9_StatusControlOnlyFromAssigned ==
    /\ StatusCardDisabled <=> (order.statusId < 52)
    /\ showStatusModal => order.statusId >= 52

\* the modal has been opened on an assigned order
C9_Witness ==
    /\ showStatusModal
    /\ order.statusId = 52
    /\ ~StatusCardDisabled

\* C10: with the status modal open on an order at code 57, both successors
\* are offered: delivered (58) and customer did not show up (263).
C10_BothSuccessorsOfferedAt57 ==
    (showStatusModal /\ order.statusId = 57) => {58, 263} \subseteq OfferedStatusUpdates

\* C11: a transition from 57 to 263 (customer no-show), when explicitly
\* requested, is applied: the update is sent with statusId 263 and on success
\* the displayed order has statusId 263 and the registry name for 263.
C11_NoShowRequestIsApplied ==
    (queried = 57 /\ requested = 263) =>
        /\ sent # <<>>
        /\ sent[Len(sent)].statusId = 263
        /\ (lastReply.kind = "update" /\ lastReply.ok /\ order.statusId # 57)
               => (order.statusId = 263 /\ order.status = "customer_not_showed_up")

\* C12: for an order with statusId 5 the action container offers Reject and
\* Accept only, the status control is not available, and the only backend
\* update that can be sent is the accept with statusId 52: asking
\* handleUpdateOrderStatus for a progression update sends nothing.
C12_AvailableOrderOnlyAcceptOrReject ==
    /\ [](order.statusId = 5 =>
            /\ ActionButtons = {"Reject", "Accept"}
            /\ StatusCardDisabled
            /\ OfferedStatusUpdates = {})
    /\ [][(order.statusId = 5 /\ sent' # sent) =>
            /\ Len(sent') = Len(sent) + 1
            /\ sent'[Len(sent')].statusId = 52
            /\ Len(pending') = Len(pending) + 1
            /\ pending'[Len(pending')].kind = "accept"]_vars
    /\ [][(order.statusId = 5 /\ queried' = 5 /\ sent' = sent) =>
            nextStatusId' = Null]_vars

\* on an order at 5 an update has been asked for (nothing sent) and the
\* accept has been pressed (52 sent)
C12_Witness ==
    /\ order.statusId = 5
    /\ queried = 5
    /\ nextStatusId = Null
    /\ Len(sent) = 1
    /\ sent[1].statusId = 52
    /\ pending[1].kind = "accept"


\* the orders of the list whose code is one of codes
Holding(orders, codes) == {i \in 1..Len(orders) : orders[i].statusId \in codes}

\* C13: while the dashboard's active orders contain an order with statusId 52,
\* no step takes the online flag from true to false: handleToggleOnlineStatus(false)
\* does not dispatch setOnlineStatus and shows 'Cannot Go Offline' instead.
C13_OfflineBlockedWhileHolding52 ==
    [][Holding(dashActiveOrders, {52}) # {} =>
          /\ (isOnline => isOnline')
          /\ (dashAlert' # dashAlert => (dashAlert' = "Cannot Go Offline" /\ isOnline' = isOnline))]_vars

C13_Witness ==
    /\ dashMounted
    /\ isOnline
    /\ Holding(dashActiveOrders, {52}) # {}
    /\ dashAlert = "Cannot Go Offline"

\* C14: while the dashboard's active orders contain an order whose statusId is
\* one of 52, 53, 65, 54, 56, 57, no step takes the online flag from true to false.
C14_OfflineBlockedWhileHoldingUndelivered ==
    [][Holding(dashActiveOrders, {52, 53, 65, 54, 56, 57}) # {} => (isOnline => isOnline')]_vars

\* the order fetch of a call resolved in this step while its wallet fetch is
\* still outstanding
OrdersResolvedBeforeWallet ==
    /\ fetchTick' # fetchTick
    /\ \E l \in BagToSet(dashLoads') :
          /\ l.orders = "ok"
          /\ l.wallet = "pending"
          /\ CopiesIn(l, dashLoads') > CopiesIn(l, dashLoads)

\* C17 as stated: activeOrders is not updated from the order-fetch result
\* before the wallet fetch of the same loadDashboardData has completed or failed.
C17_NoUpdateBeforeJoin ==
    [][OrdersResolvedBeforeWallet => dashActiveOrders' = dashActiveOrders]_vars

\* C17, amended: an online loadDashboardData has its order fetch and its
\* wallet fetch outstanding together; activeOrders is set to the order-fetch
\* result in the step in which that fetch resolves, whatever the state of the
\* wallet fetch; only the return of loadDashboardData waits for the join, so a
\* call with a request still outstanding has returned iff a request has failed.
C17_OrdersAppliedOnArrival ==
    /\ [][\A l \in BagToSet(dashLoads') :
             (CopiesIn(l, dashLoads') > CopiesIn(l, dashLoads)
                 /\ Outstanding(dashLoads') > Outstanding(dashLoads) /\ l.online)
                 => (l.orders = "pending" /\ l.wallet = "pending")]_vars
    /\ [][fetchTick' # fetchTick => dashActiveOrders' = lastFetched']_vars
    /\ [](\A l \in BagToSet(dashLoads) :
             l.returned <=> "failed" \in {l.orders, l.wallet})

C17_Witness ==
    /\ fetchTick = 1
    /\ lastFetched # <<>>
    /\ dashActiveOrders = lastFetched
    /\ \E l \in BagToSet(dashLoads) :
          l.orders = "ok" /\ l.wallet = "pending" /\ ~l.returned


\* a loadOrders call of the mounted list completes in this step
LoadOrdersCompletes ==
    /\ listMounted'
    /\ Outstanding(listCalls') < Outstanding(listCalls)

\* the call that completes in this step
Completing(call) == CopiesIn(call, listCalls') < CopiesIn(call, listCalls)

Displayed(active, history) ==
    {active[i].id : i \in 1..Len(active)} \cup {history[i].id : i \in 1..Len(history)}

\* C15: after every completed loadOrders of the list, neither activeOrders nor
\* orderHistory holds an order whose id is in the Rejection Ledger's live set.
C15_NoRejectedOrderDisplayed ==
    [][LoadOrdersCompletes => Displayed(listActive', listHistory') \cap ledger = {}]_vars

\* C16: a failed auto-refresh, pull-to-refresh or bus-triggered reload that
\* completes while the list displays an order leaves activeOrders and
\* orderHistory unchanged.
C16_FailedRefreshKeepsDisplayedData ==
    [][(/\ LoadOrdersCompletes
        /\ lastResponse' = Failed
        /\ \E call \in BagToSet(listCalls) :
              Completing(call) /\ call.src \in {"interval", "refresh", "bus"}
        /\ Len(listActive) + Len(listHistory) > 0)
       => UNCHANGED <<listActive, listHistory>>]_vars

\* the current and past halves of one response, without the ids in rejected
CurrentHalf(raw, rejected) ==
    SelectSeq(MapOrders(raw), LAMBDA o : o.statusId # 58 /\ o.id \notin rejected)

PastHalf(raw, rejected) ==
    SelectSeq(MapOrders(raw), LAMBDA o : o.statusId = 58 /\ o.id \notin rejected)

HalvesOfOneResponse(active, history) ==
    \E codes \in ListBatches, rejected \in SUBSET ledger :
        /\ active  = CurrentHalf(RawBatch(codes), rejected)
        /\ history = PastHalf(RawBatch(codes), rejected)

\* C18 as stated: the two lists are always the halves of one response, and
\* when a completing call leaves no call outstanding, the lists are the halves
\* of that call's response.
C18_ListsFromLastCompletedCall ==
    /\ [](listMounted => HalvesOfOneResponse(listActive, listHistory))
    /\ [][(LoadOrdersCompletes /\ Outstanding(listCalls') = 0) =>
             /\ lastResponse' # Failed
             /\ \E call \in BagToSet(listCalls) :
                   /\ Completing(call)
                   /\ listActive'  = CurrentHalf(lastResponse'.raw, call.env.rejected)
                   /\ listHistory' = PastHalf(lastResponse'.raw, call.env.rejected)]_vars

\* C18, amended: the two lists are always the halves of one response (both
\* empty included), less the ids its call's closure held as rejected; a
\* completing call that got a response sets both lists to that response's
\* halves, one whose fetch failed sets both to empty when its closure's lists
\* were empty and otherwise leaves both; no other step of the mounted list
\* changes them. So the lists are those of the last call that wrote them.
C18_ListsFromLastWritingCall ==
    /\ [](listMounted => HalvesOfOneResponse(listActive, listHistory))
    /\ [][LoadOrdersCompletes =>
             \E call \in BagToSet(listCalls) :
                /\ Completing(call)
                /\ IF lastResponse' # Failed
                   THEN /\ listActive'  = CurrentHalf(lastResponse'.raw, call.env.rejected)
                        /\ listHistory' = PastHalf(lastResponse'.raw, call.env.rejected)
                   ELSE IF call.env.empty
                        THEN listActive' = <<>> /\ listHistory' = <<>>
                        ELSE UNCHANGED <<listActive, listHistory>>]_vars
    /\ [][(listMounted /\ listMounted' /\ ~LoadOrdersCompletes)
             => UNCHANGED <<listActive, listHistory>>]_vars

\* the call that completed last failed, and the lists still show what an
\* earlier call wrote
C18_Witness ==
    /\ listMounted
    /\ Outstanding(listCalls) = 0
    /\ lastResponse = Failed
    /\ Len(listActive) + Len(listHistory) > 0


\* the dashboard's reload ran in this step: the spinner is on and one more
\* loadDashboardData is outstanding
DashReloadRan ==
    /\ dashRefreshing'
    /\ Outstanding(dashLoads') = Outstanding(dashLoads) + 1
    /\ \E l \in BagToSet(dashLoads') :
          /\ CopiesIn(l, dashLoads') = CopiesIn(l, dashLoads) + 1
          /\ l.wrap
          /\ l.wallet = "pending"
          /\ l.orders \in {"pending", "none"}

\* the list's reload ran in this step: the spinner is on and one more
\* loadOrders is outstanding
ListReloadRan ==
    /\ isLoading'
    /\ Outstanding(listCalls') = Outstanding(listCalls) + 1
    /\ \E c \in BagToSet(listCalls') :
          /\ CopiesIn(c, listCalls') = CopiesIn(c, listCalls) + 1
          /\ c.src = "bus"

\* C19: with the dashboard and the orders list both mounted, one publish of
\* orderUpdated runs the reload of each: a loadDashboardData and a loadOrders
\* are started by that publish.
C19_PublishReloadsBothViews ==
    [][(emitted' # emitted /\ dashMounted /\ listMounted)
          => (DashReloadRan /\ ListReloadRan)]_vars

C19_Witness ==
    /\ emitted = 1
    /\ dashMounted
    /\ listMounted
    /\ dashRefreshing
    /\ isLoading
    /\ \E l \in BagToSet(dashLoads) : l.wrap /\ l.online /\ l.orders = "pending"
    /\ \E c \in BagToSet(listCalls) : c.src = "bus"

\* the handler of a view's current mount
HandlerOf(view, isMounted, gen) ==
    IF isMounted THEN {[view |-> view, gen |-> gen]} ELSE {}

\* C20: the registered handlers are exactly those of the views now mounted
\* (added by the mount, the same one removed by the unmount), and a publish
\* while a view is unmounted changes nothing of that view.
C20_SubscribedExactlyWhileMounted ==
    /\ [](subscribers = HandlerOf("dashboard", dashMounted, dashGen)
                            \cup HandlerOf("list", listMounted, listGen))
    /\ [][(emitted' # emitted /\ ~dashMounted) => UNCHANGED dashVars]_vars
    /\ [][(emitted' # emitted /\ ~listMounted) => UNCHANGED listVars]_vars

\* the dashboard was mounted and is gone, the list is mounted, and a publish
\* has reloaded the list alone
C20_Witness ==
    /\ ~dashMounted
    /\ dashGen = 1
    /\ dashLoads = EmptyBag
    /\ ~dashRefreshing
    /\ listMounted
    /\ subscribers = {[view |-> "list", gen |-> listGen]}
    /\ \E c \in BagToSet(listCalls) : c.src = "bus"

\* number of positions of ids holding this id
Count(ids, id) == Cardinality({j \in 1..Len(ids) : ids[j] = id})

\* every AsyncStorage call the ledger call made succeeded
Succeeded(call) == call.failed = {}

\* the step completes a call of this ledger operation
LedgerStep(op) == lastCall'.tick # lastCall.tick /\ lastCall'.op = op

\* the item is a record of the day the clock is in
DatedToday(item) == item # NoItem /\ item.date = getCurrentDateString

\* C21: when an order id is rejected again on the day it was already
\* rejected (the record is of today and holds the id), the second
\* addRejectedOrder leaves the persisted record as the first left it, and
\* the id is in it exactly once.
C21_SameDayRejectionIdempotent ==
    [][(/\ LedgerStep("addRejectedOrder")
        /\ Succeeded(lastCall')
        /\ DatedToday(stored)
        /\ includes(stored.orderIds, lastCall'.orderId))
       => (/\ stored' = stored
           /\ Count(stored'.orderIds, lastCall'.orderId) = 1)]_vars

C21_Witness ==
    /\ lastCall.op = "addRejectedOrder"
    /\ Succeeded(lastCall)
    /\ DatedToday(lastCall.before)
    /\ includes(lastCall.before.orderIds, lastCall.orderId)
    /\ Len(lastCall.before.orderIds) = 2
    /\ stored = lastCall.before

\* the ids of a list
IdsOf(ids) == {ids[j] : j \in 1..Len(ids)}

\* C22: the persisted record never holds an id twice and is never dated
\* after today; every addRejectedOrder leaves a record dated today whose
\* ids are the rejected id together with the ids the record already held
\* if it was of today, and the rejected id alone if it was of another day
\* (the old record is replaced, not merged).
C22_OneRecordOfTheLatestRejectionDay ==
    /\ [](stored # NoItem =>
            /\ stored.date \in 0..getCurrentDateString
            /\ stored.orderIds # <<>>
            /\ \A id \in LedgerIds : Count(stored.orderIds, id) <= 1)
    /\ [][(LedgerStep("addRejectedOrder") /\ Succeeded(lastCall')) =>
            /\ stored' # NoItem
            /\ stored'.date = getCurrentDateString
            /\ IdsOf(stored'.orderIds) =
                   (IF DatedToday(stored) THEN IdsOf(stored.orderIds) ELSE {})
                       \cup {lastCall'.orderId}]_vars

C22_Witness ==
    /\ lastCall.op = "addRejectedOrder"
    /\ Succeeded(lastCall)
    /\ lastCall.before # NoItem
    /\ Len(lastCall.before.orderIds) = 2
    /\ lastCall.before.date < stored.date
    /\ stored.orderIds = <<lastCall.orderId>>

\* C23: a getRejectedOrderIds call that finds a record dated 4 or more days
\* before today returns the empty list and removes the item, so that the
\* next read finds nothing stored.
C23_FourDayOldRecordIsDropped ==
    [][(/\ LedgerStep("getRejectedOrderIds")
        /\ Succeeded(lastCall')
        /\ stored # NoItem
        /\ AgeInDays(stored) >= 4)
       => (/\ lastCall'.ids = <<>>
           /\ stored' = NoItem
           /\ getRejectedOrdersData(TRUE)' = NoItem)]_vars

C23_Witness ==
    /\ lastCall.op = "getRejectedOrderIds"
    /\ Succeeded(lastCall)
    /\ lastCall.before # NoItem
    /\ lastCall.age >= 4
    /\ lastCall.ids = <<>>
    /\ stored = NoItem

\* C24: getRejectedOrderIds treats the record it finds as expired exactly
\* when the calendar-day difference between today and the record's date
\* exceeds 3, whatever the time of day: an expired record is removed and
\* gives the empty list, any other record is returned intact.
C24_ExpiredIffMoreThan3CalendarDays ==
    [][(/\ LedgerStep("getRejectedOrderIds")
        /\ Succeeded(lastCall')
        /\ stored # NoItem)
       => IF AgeInDays(stored) > 3
          THEN lastCall'.ids = <<>> /\ stored' = NoItem
          ELSE lastCall'.ids = stored.orderIds /\ stored' = stored]_vars

\* C25: an id of a record at most 3 calendar days old (rejected within the
\* rolling window) stays live: a later addRejectedOrder keeps it in the
\* record, getRejectedOrderIds returns it and isOrderRejected answers true
\* for it.
C25_RejectedStaysLiveForThreeDays ==
    [][(stored # NoItem /\ AgeInDays(stored) <= 3 /\ Succeeded(lastCall')) =>
          /\ LedgerStep("addRejectedOrder") =>
                 IdsOf(stored.orderIds) \subseteq IdsOf(stored'.orderIds)
          /\ LedgerStep("getRejectedOrderIds") =>
                 IdsOf(stored.orderIds) \subseteq IdsOf(lastCall'.ids)
          /\ LedgerStep("isOrderRejected") =>
                 (includes(stored.orderIds, lastCall'.orderId) => lastCall'.answer)]_vars

\* C26: no ledger call throws.  A getRejectedOrderIds or isOrderRejected
\* call whose storage read throws returns the empty list, respectively
\* false; an addRejectedOrder whose write throws, and a clearRejectedOrders
\* (by itself or within a read or a cleanup) whose remove throws, leave the
\* persisted item as it was.
C26_StorageFailuresAreSwallowed ==
    /\ [](~lastCall.threw)
    /\ [][(\E op \in {"getRejectedOrderIds", "isOrderRejected"} : LedgerStep(op))
              /\ "getItem" \in lastCall'.failed
          => (lastCall'.ids = <<>> /\ ~lastCall'.answer)]_vars
    /\ [][(LedgerStep("addRejectedOrder") /\ "setItem" \in lastCall'.failed)
          => stored' = stored]_vars
    /\ [][(lastCall'.tick # lastCall.tick /\ "removeItem" \in lastCall'.failed)
          => stored' = stored]_vars

C26_Witness ==
    /\ lastCall.op = "isOrderRejected"
    /\ lastCall.failed = {"getItem"}
    /\ ~lastCall.answer
    /\ DatedToday(stored)
    /\ includes(stored.orderIds, lastCall.orderId)

\* a source answered and its response holds the order looked for
Contains(source) ==
    /\ source.ok
    /\ \E j \in 1..Len(source.raw) : toString(source.raw[j].id) = routeOrderId

\* C27: when the lookup has ended, fetchingOrder is false; if one source
\* failed and the other's response holds the order, the order with the id
\* looked for is displayed; and the view shows 'Order not found' (order is
\* null) only if no successful response holds it, in which case the order
\* displayed is the mapped record of a source that holds it.
C27_LookupToleratesOneFailingSource ==
    lookupPc = "done" =>
        /\ ~fetchingOrder
        /\ (~availableSource.ok /\ Contains(assignedSource)) => order.id = routeOrderId
        /\ (~assignedSource.ok /\ Contains(availableSource)) => order.id = routeOrderId
        /\ order = NoOrder <=> ~(Contains(availableSource) \/ Contains(assignedSource))
        /\ order # NoOrder =>
               \E source \in {availableSource, assignedSource} :
                   /\ source.ok
                   /\ \E j \in 1..Len(source.raw) : order = mapApiOrderToOrder(source.raw[j])

C27_Witness ==
    /\ lookupPc = "done"
    /\ ~availableSource.ok
    /\ Contains(assignedSource)
    /\ order.id = routeOrderId
    /\ ~fetchingOrder

\* name spells word when capitals and small letters are taken as equal
Spells(name, word) ==
    /\ Len(name) = Len(word)
    /\ \A j \in 1..Len(word) :
           \/ name[j] = word[j]
           \/ \E k \in 1..Len(Letters) : Letters[k] = word[j] /\ Capitals[k] = name[j]

\* C28: for every payment type name that is a string, the mapped payment
\* method is one of cash, card, upi (the mapper does not throw): card exactly
\* for the spellings of 'card' in any case, upi exactly for those of 'upi',
\* and cash for 'cash', 'pay on delivery' and every other string.
C28_PaymentMethodNormalised ==
    (mappedPayment # "unmapped" /\ apiPayment # NullName) =>
        /\ mappedPayment \in {"cash", "card", "upi"}
        /\ mappedPayment = "card" <=> Spells(apiPayment, Card)
        /\ mappedPayment = "upi" <=> Spells(apiPayment, Upi)
        /\ (Spells(apiPayment, Cash) \/ Spells(apiPayment, PayOnDelivery))
               => mappedPayment = "cash"

C28_Witness ==
    /\ apiPayment = <<"C", "a", "R", "d">>
    /\ mappedPayment = "card"

\* the registry has an entry under the key of this code
Registered(c) == toString(c) \in DOMAIN ORDER_STATUSES

\* the lookup is defined for exactly the codes the specification lists, a
\* lookup of any other code finds nothing, and every entry's id is its key
RegistryIsExact ==
    /\ \A c \in Codes : Registered(c) <=> c \in RegisteredCodes
    /\ DOMAIN ORDER_STATUSES = {toString(c) : c \in RegisteredCodes}
    /\ \A c \in Codes \ RegisteredCodes : StatusNameOf(toString(c)) = Undefined
    /\ \A c \in RegisteredCodes : ORDER_STATUSES[toString(c)].id = toString(c)

\* C29: the Status Registry is defined for exactly {4, 5, 8, 52, 53, 54, 55,
\* 56, 57, 58, 59, 65, 263} with each entry's id equal to its code and
\* nothing found for any other code; and every code a transition produces
\* (each status sent to the backend, each successor computed, 52 and 263)
\* has an entry.
C29_RegistryExactAndCoversTransitions ==
    /\ RegistryIsExact
    /\ Registered(52) /\ Registered(263)
    /\ \A c \in ProgressionKeys : Registered(getNextStatusId(c))
    /\ \A j \in 1..Len(sent) : Registered(sent[j].statusId)
    /\ nextStatusId # Null => Registered(nextStatusId)

C29_Witness ==
    /\ sent # <<>>
    /\ done = Len(sent)
    /\ lastReply.ok
    /\ order.statusId = sent[Len(sent)].statusId
    /\ order.statusId = 65
    /\ ORDER_STATUSES[toString(order.statusId)].id = "65"

\* C30: orderUpdated is published only in the step in which a backend
\* update call (of a transition or of an accept) returns success, once for
\* each such call: never when a call is requested or still outstanding and
\* never when a call fails; and when the call was a progression transition
\* the displayed order already carries the new status when the event has
\* been published.
C30_PublishedOncePerSuccessfulCall ==
    /\ [](emitted <= done)
    /\ [][emitted' # emitted =>
            /\ emitted' = emitted + 1
            /\ done' = done + 1
            /\ lastReply'.ok
            /\ sent' = sent
            /\ Len(pending') = Len(pending) - 1
            /\ lastReply'.kind = "update" => order'.statusId = lastReply'.statusId]_vars
    /\ [][(done' = done + 1 /\ lastReply'.ok) => emitted' = emitted + 1]_vars
    /\ [][(done' = done + 1 /\ ~lastReply'.ok) => emitted' = emitted]_vars

\* of two calls the first failed and the second, a transition, succeeded
C30_Witness ==
    /\ done = 2
    /\ emitted = 1
    /\ pending = <<>>
    /\ lastReply.kind = "update"
    /\ lastReply.ok
    /\ order.statusId = lastReply.statusId

\* C32: every change of the displayed order's status code goes from a code
\* to its successor in the progression, and every update request of
\* handleUpdateOrderStatus carries the successor of the code displayed when
\* it is made, also while an earlier request is still outstanding.
C32_EveryChangeIsOneProgressionStep ==
    /\ [][order'.statusId # order.statusId =>
             order'.statusId = getNextStatusId(order.statusId)]_vars
    /\ [][(Len(pending') > Len(pending) /\ pending'[Len(pending')].kind = "update") =>
             pending'[Len(pending')].body.statusId = getNextStatusId(order.statusId)]_vars

\* the path of the progression as the specification states it
Path == <<52, 53, 65, 54, 56, 57, 58>>

Rank(c) == CHOOSE k \in 1..Len(Path) : Path[k] = c

\* the step completes, with success, an update that was requested from the
\* order now displayed (no other update came in between)
UpdatedInSequence ==
    /\ done' = done + 1
    /\ lastReply'.ok
    /\ lastReply'.kind = "update"
    /\ \E i \in 1..Len(pending) :
           /\ pending' = RemoveAt(pending, i)
           /\ pending[i].kind = "update"
           /\ pending[i].snap = order

\* C31: the successor function walks 52, 53, 65, 54, 56, 57, 58 without
\* repeating a code and has no successor for 58; every successful update made
\* in sequence moves the displayed order one place along this path, so 58 is
\* the sixth update from 52; and from 58 no update is requested any more.
C31_ProgressionPathEndsAt58 ==
    /\ [](/\ \A k \in 1..(Len(Path) - 1) : getNextStatusId(Path[k]) = Path[k + 1]
          /\ getNextStatusId(Path[Len(Path)]) = Null
          /\ \A k, l \in 1..Len(Path) : Path[k] = Path[l] => k = l)
    /\ [][UpdatedInSequence =>
            /\ \E k \in 1..(Len(Path) - 1) : order.statusId = Path[k]
            /\ order'.statusId = Path[Rank(order.statusId) + 1]]_vars
    /\ [][order.statusId = 58 => (sent' = sent /\ Len(pending') <= Len(pending))]_vars

\* six updates in sequence have taken an order from 52 to 58
C31_Witness ==
    /\ order.statusId = 58
    /\ done = 6
    /\ pending = <<>>
    /\ [j \in 1..Len(sent) |-> sent[j].statusId] = <<53, 65, 54, 56, 57, 58>>

\* the codes the progression gives a successor
WithSuccessor == {52, 53, 65, 54, 56, 57}

\* the step is an invocation of handleUpdateOrderStatus
HandlerInvoked == <<queried, nextStatusId, requested>>' # <<queried, nextStatusId, requested>>

\* C33: exactly the codes outside 52, 53, 65, 54, 56, 57 have no successor
\* (58, 263, 55, 59, 8, 4 and 5 among them), and invoking
\* handleUpdateOrderStatus on an order with such a code sends no update,
\* leaves the displayed order, the loading flag and the modal as they are and
\* publishes nothing.
C33_NoSuccessorMeansNoOp ==
    /\ [](\A c \in Codes : Falsy(getNextStatusId(c)) <=> c \notin WithSuccessor)
    /\ [][(order.statusId \notin WithSuccessor /\ HandlerInvoked) =>
            /\ sent' = sent
            /\ pending' = pending
            /\ order' = order
            /\ emitted' = emitted
            /\ UNCHANGED <<loading, showStatusModal, mounted, alert, done, viewVars>>]_vars

\* the handler was invoked on an order that an update had just taken to 58
C33_Witness ==
    /\ order.statusId = 58
    /\ queried = 58
    /\ Len(sent) = 1
    /\ done = 1
    /\ pending = <<>>

\* C34: while the courier is offline (the going-offline effect has run), the
\* dashboard shows no active orders.
C34_OfflineDashboardShowsNoOrders ==
    (dashMounted /\ ~isOnline) => dashActiveOrders = <<>>

\* the step is a call of loadOrders whose getOrders() returned
LoadSucceeded ==
    /\ listMounted /\ listMounted'
    /\ Outstanding(listCalls') < Outstanding(listCalls)
    /\ lastResponse'.ok

\* C35: in the orders list, networkError set implies that activeOrders and
\* orderHistory are both empty, and every load that succeeds leaves
\* networkError false.
C35_NetworkErrorOnlyWithEmptyLists ==
    /\ [](networkError => (listActive = <<>> /\ listHistory = <<>>))
    /\ [][LoadSucceeded => ~networkError']_vars

\* a failed load has raised networkError while another load is outstanding
C35_Witness ==
    /\ listMounted
    /\ networkError
    /\ lastResponse = Failed
    /\ Outstanding(listCalls) > 0

\* two addRejectedOrder calls and no other have run, for different orders on
\* the same day, and every storage call they made succeeded
TwoRejectionsOfOneDay ==
    /\ adding = <<>>
    /\ Len(completed) = 2
    /\ completed[1].orderId # completed[2].orderId
    /\ completed[1].date = completed[2].date
    /\ completed[1].failed = {} /\ completed[2].failed = {}

\* C36: once two addRejectedOrder calls for different orders on the same day
\* have both completed, however their reads and writes were interleaved, the
\* stored record contains both ids.
C36_InterleavedRejectionsBothStored ==
    TwoRejectionsOfOneDay =>
        {completed[1].orderId, completed[2].orderId} \subseteq IdsOf(stored.orderIds)

\* C37: once no fetch is outstanding, the orders list shows neither its
\* spinner nor its pull-to-refresh indicator, and the dashboard does not show
\* its refresh indicator, whatever loads ran before and however they ended.
C37_IndicatorsOffWhenNothingOutstanding ==
    /\ (listMounted /\ Outstanding(listCalls) = 0) => (~isLoading /\ ~listRefreshing)
    /\ (dashMounted /\ Outstanding(dashLoads) = 0) => ~dashRefreshing

\* the list's loads have all completed, the last of them with a failure
C37_Witness ==
    /\ listMounted
    /\ Outstanding(listCalls) = 0
    /\ lastResponse = Failed
    /\ ~isLoading
    /\ ~listRefreshing

\* C38: a mounted orders list has at most one auto-refresh interval set,
\* whatever tab switches happened, and an unmounted one has none.
C38_AtMostOneIntervalAndNoneAfterUnmount ==
    /\ listMounted => Outstanding(timers) <= 1
    /\ ~listMounted => timers = EmptyBag

\* the tab was switched away and back: the one interval set is the one of the
\* last effect, whose closure is no longer the first render's
C38_Witness ==
    /\ listMounted
    /\ activeTab = "active"
    /\ timerEnv # FirstRender
    /\ timers = One(timerEnv)

====
